---- MODULE Spec2Model ----
(***************************************************************************)
(* A model of burlap's runtime value model (src/value.rs) and bytecode     *)
(* compiler (src/backend/vm/compiler.rs).                                  *)
(*                                                                         *)
(* Part I   models Value and its arithmetic operators as operators.        *)
(* Part II  models the Compiler as a state machine: one action per         *)
(*          top-level statement handed to compile().                       *)
(***************************************************************************)
EXTENDS Integers, Sequences, FiniteSets, TLC

VARIABLES
    overflow_checks,  \* build profile: TRUE when i32 overflow panics (debug), FALSE when it wraps
    v_left,           \* left operand of the arithmetic operation under evaluation
    v_right,          \* right operand
    v_op,             \* the operator last applied ("none" before the first one)
    v_result,         \* the outcome of the operator or method last applied
    it_source,        \* the value to_iter was last called on
    it_calls,         \* the number of iter_next calls on v_left since that to_iter
    compiler,         \* the Compiler, with its Program's fields: see NewCompiler
    phase,            \* where the caller of compile() stands: see Part II
    compiled,         \* the number of top-level nodes of the current AST compiled so far
    stmt_in,          \* the top-level node compile() handed to compile_stmt last
    const_in,         \* the constant handed to the last constant emission
    pre,              \* the Compiler as it was before the last operation on it
    returned          \* what the last operation returned

valueVars == <<overflow_checks, v_left, v_right, v_op, v_result, it_source, it_calls>>
compilerVars == <<compiler, phase, compiled, stmt_in, const_in, pre, returned>>
vars == <<overflow_checks, v_left, v_right, v_op, v_result, it_source, it_calls,
          compiler, phase, compiled, stmt_in, const_in, pre, returned>>

(***************************************************************************)
(* Part I.  src/value.rs                                                   *)
(***************************************************************************)

\* ---- i32 -----------------------------------------------------------------
I32Max == 2147483647
I32Min == -2147483647 - 1

Abs(n) == IF n < 0 THEN -n ELSE n
Sign(n) == IF n < 0 THEN -1 ELSE IF n = 0 THEN 0 ELSE 1

\* ---- Value: a record [tag, v] ------------------------------------------
\* Str:   v is the sequence of the string's characters
\* Int:   v is an i32
\* Float: v is <<n, d>>: the rational n/d in lowest terms with d > 0;
\*        <<0, 1>> is +0.0, <<0, -1>> is -0.0, <<1, 0>> is +inf,
\*        <<-1, 0>> is -inf and <<0, 0>> is NaN
\* Bool:  v is a BOOLEAN
\* List:  v is the IndexMap: a sequence of <<key, value>> in insertion order
\* None:  v is 0
\* Iter:  v is <<snapshot, cursor>>
\* (the constructors carry a V because Int is the set of integers here)
VStr(s) == [tag |-> "Str", v |-> s]
VInt(i) == [tag |-> "Int", v |-> i]
VFloat(f) == [tag |-> "Float", v |-> f]
VBool(b) == [tag |-> "Bool", v |-> b]
VList(l) == [tag |-> "List", v |-> l]
VNone == [tag |-> "None", v |-> 0]
VIter(l, at) == [tag |-> "Iter", v |-> <<l, at>>]

\* Result<Value, String>, plus the outcome of a panic
Ok(val) == [kind |-> "Ok", val |-> val, msg |-> ""]
Err(m) == [kind |-> "Err", val |-> VNone, msg |-> m]
Abort(m) == [kind |-> "Abort", val |-> VNone, msg |-> m]

\* ---- i32 arithmetic (the Int arm of do_op!) --------------------------------
\* An i32 operation yields [abort, v]: abort when the operation panics.  Overflow
\* of + - * panics when the build checks overflow and wraps otherwise; % by zero
\* and i32::MIN % -1 panic in every build.
I32Ok(i) == [abort |-> FALSE, v |-> i]
I32Panic == [abort |-> TRUE, v |-> 0]
I32Overflow(wrapped) == IF overflow_checks THEN I32Panic ELSE I32Ok(wrapped)

I32Add(a, b) ==
    IF b >= 0
    THEN IF a > I32Max - b
         THEN I32Overflow(I32Min + ((a - (I32Max - b)) - 1))
         ELSE I32Ok(a + b)
    ELSE IF a < I32Min - b
         THEN I32Overflow(I32Max - (((I32Min - b) - 1) - a))
         ELSE I32Ok(a + b)

I32Sub(a, b) ==
    IF b = I32Min
    THEN IF a >= 0 THEN I32Overflow(a + I32Min) ELSE I32Ok((a + I32Max) + 1)
    ELSE I32Add(a, -b)

\* the four bytes of i as a u32, least significant first
U32Bytes(i) ==
    LET u == IF i >= 0 THEN i ELSE i - I32Min
        top == (u \div 16777216) + (IF i >= 0 THEN 0 ELSE 128)
    IN  <<u % 256, (u \div 256) % 256, (u \div 65536) % 256, top>>

FromU32Bytes(b) ==
    (IF b[4] >= 128 THEN (b[4] - 256) * 16777216 ELSE b[4] * 16777216)
        + b[3] * 65536 + b[2] * 256 + b[1]

\* a * b modulo 2^32, by schoolbook multiplication of the bytes
WrappingMul(a, b) ==
    LET x == U32Bytes(a)
        y == U32Bytes(b)
        s1 == x[1] * y[1]
        s2 == x[1] * y[2] + x[2] * y[1] + (s1 \div 256)
        s3 == x[1] * y[3] + x[2] * y[2] + x[3] * y[1] + (s2 \div 256)
        s4 == x[1] * y[4] + x[2] * y[3] + x[3] * y[2] + x[4] * y[1] + (s3 \div 256)
    IN  FromU32Bytes(<<s1 % 256, s2 % 256, s3 % 256, s4 % 256>>)

MulOverflows(a, b) ==
    IF a = 0 \/ b = 0 THEN FALSE
    ELSE IF a = I32Min THEN b # 1
    ELSE IF b = I32Min THEN a # 1
    ELSE LET x == Abs(a)
             y == Abs(b)
         IN  IF Sign(a) = Sign(b)
             THEN x > I32Max \div y
             ELSE /\ x > I32Max \div y
                  /\ ~(I32Max % y = y - 1 /\ x = (I32Max \div y) + 1)

I32Mul(a, b) ==
    IF MulOverflows(a, b) THEN I32Overflow(WrappingMul(a, b)) ELSE I32Ok(a * b)

\* Rust's % truncates: the result has the sign of the dividend
I32Rem(a, b) ==
    IF b = 0 THEN I32Panic
    ELSE IF a = I32Min /\ b = -1 THEN I32Panic
    ELSE IF b = I32Min THEN I32Ok(IF a = I32Min THEN 0 ELSE a)
    ELSE IF a = I32Min THEN I32Ok(-(((I32Max % Abs(b)) + 1) % Abs(b)))
    ELSE I32Ok(Sign(a) * (Abs(a) % Abs(b)))

\* ---- f32 -----------------------------------------------------------------
\* A float is the pair <<n, d>> described above.  The rational stands for the
\* f32 nearest to it: rounding is not modelled, so the arithmetic below is
\* exact on the values the specifications feed it.
RECURSIVE Gcd(_, _)
Gcd(a, b) == IF b = 0 THEN a ELSE Gcd(b, a % b)

FNaN == <<0, 0>>
FInf(neg) == IF neg THEN <<-1, 0>> ELSE <<1, 0>>
FZero(neg) == IF neg THEN <<0, -1>> ELSE <<0, 1>>
FIsNaN(f) == f = FNaN
FIsInf(f) == f[2] = 0 /\ f[1] # 0
FIsZero(f) == f[1] = 0 /\ f[2] # 0
FNeg(f) == IF FIsZero(f) THEN f[2] < 0 ELSE f[1] < 0
\* the float n/d for integers n and d > 0, n # 0
FRat(n, d) == LET g == Gcd(Abs(n), d) IN <<n \div g, d \div g>>
FNum(f) == f[1]
FDen(f) == Abs(f[2])
FNegate(f) == IF FIsZero(f) THEN <<0, -f[2]>> ELSE <<-f[1], f[2]>>

FAdd(x, y) ==
    IF FIsNaN(x) \/ FIsNaN(y) THEN FNaN
    ELSE IF FIsInf(x) THEN (IF FIsInf(y) /\ x # y THEN FNaN ELSE x)
    ELSE IF FIsInf(y) THEN y
    ELSE IF FIsZero(x) /\ FIsZero(y) THEN FZero(FNeg(x) /\ FNeg(y))
    ELSE LET n == FNum(x) * FDen(y) + FNum(y) * FDen(x)
         IN  IF n = 0 THEN FZero(FALSE) ELSE FRat(n, FDen(x) * FDen(y))

FSub(x, y) == FAdd(x, FNegate(y))

FMul(x, y) ==
    LET neg == FNeg(x) # FNeg(y)
    IN  IF FIsNaN(x) \/ FIsNaN(y) THEN FNaN
        ELSE IF FIsInf(x) \/ FIsInf(y)
             THEN (IF FIsZero(x) \/ FIsZero(y) THEN FNaN ELSE FInf(neg))
        ELSE IF FIsZero(x) \/ FIsZero(y) THEN FZero(neg)
        ELSE FRat(FNum(x) * FNum(y), FDen(x) * FDen(y))

FDiv(x, y) ==
    LET neg == FNeg(x) # FNeg(y)
    IN  IF FIsNaN(x) \/ FIsNaN(y) THEN FNaN
        ELSE IF FIsInf(x) THEN (IF FIsInf(y) THEN FNaN ELSE FInf(neg))
        ELSE IF FIsInf(y) THEN FZero(neg)
        ELSE IF FIsZero(y) THEN (IF FIsZero(x) THEN FNaN ELSE FInf(neg))
        ELSE IF FIsZero(x) THEN FZero(neg)
        ELSE FRat((IF neg THEN -1 ELSE 1) * Abs(FNum(x)) * FDen(y),
                  FDen(x) * Abs(FNum(y)))

\* Rust's % on floats is fmod: x - trunc(x / y) * y, with the sign of x
FRem(x, y) ==
    IF FIsNaN(x) \/ FIsNaN(y) \/ FIsInf(x) \/ FIsZero(y) THEN FNaN
    ELSE IF FIsInf(y) \/ FIsZero(x) THEN x
    ELSE LET q == (Abs(FNum(x)) * FDen(y)) \div (FDen(x) * Abs(FNum(y)))
             \* |x| - q * |y| over the common denominator
             n == Abs(FNum(x)) * FDen(y) - q * Abs(FNum(y)) * FDen(x)
         IN  IF n = 0 THEN FZero(FNeg(x))
             ELSE FRat((IF FNeg(x) THEN -1 ELSE 1) * n, FDen(x) * FDen(y))

\* `i as f32`: exact while |i| <= 2^24 and for the powers of two
IntToF32(i) == IF i = 0 THEN FZero(FALSE) ELSE <<i, 1>>

\* `f as i32`: truncates toward zero, saturates, NaN is 0
F32ToInt(f) ==
    IF FIsNaN(f) \/ FIsZero(f) THEN 0
    ELSE IF FIsInf(f) THEN (IF FNeg(f) THEN I32Min ELSE I32Max)
    ELSE Sign(FNum(f)) * (Abs(FNum(f)) \div FDen(f))

\* ---- Value methods -------------------------------------------------------
RECURSIVE Digits(_)
Digits(n) ==
    LET d == <<"0", "1", "2", "3", "4", "5", "6", "7", "8", "9">>[(n % 10) + 1]
    IN  IF n < 10 THEN <<d>> ELSE Append(Digits(n \div 10), d)

\* format!("{}", i)
IntToString(i) ==
    IF i = I32Min THEN <<"-">> \o Digits(I32Max \div 10) \o <<"8">>
    ELSE IF i < 0 THEN <<"-">> \o Digits(-i)
    ELSE Digits(i)

\* the decimal digits of n/d for 0 <= n < d, at most k of them
RECURSIVE FracDigits(_, _, _)
FracDigits(n, d, k) ==
    IF n = 0 \/ k = 0 THEN <<>>
    ELSE Digits((n * 10) \div d) \o FracDigits((n * 10) % d, d, k - 1)

\* format!("{}", f): the shortest decimal that reads back as f
FloatToString(f) ==
    IF FIsNaN(f) THEN <<"N", "a", "N">>
    ELSE IF FIsInf(f) THEN (IF FNeg(f) THEN <<"-">> ELSE <<>>) \o <<"i", "n", "f">>
    ELSE LET n == Abs(FNum(f))
             d == FDen(f)
             frac == FracDigits(n % d, d, 9)
         IN  (IF FNeg(f) THEN <<"-">> ELSE <<>>)
                 \o Digits(n \div d)
                 \o (IF frac = <<>> THEN <<>> ELSE <<".">> \o frac)

IsAsciiDigit(ch) == ch \in {"0", "1", "2", "3", "4", "5", "6", "7", "8", "9"}

\* ---- conversions -------------------------------------------------------------
\* Option<T>: [some, v]
Some(v) == [some |-> TRUE, v |-> v]
NoValue == [some |-> FALSE, v |-> VNone]

DigitValue(ch) == CHOOSE d \in 0..9 : <<"0", "1", "2", "3", "4", "5", "6", "7", "8", "9">>[d + 1] = ch

\* the digits of s from s[at] on, added to acc or (neg) taken from it; no
\* result when a character is not a digit or the i32 overflows
RECURSIVE ParseDigits(_, _, _, _)
ParseDigits(s, at, acc, neg) ==
    IF at > Len(s) THEN Some(acc)
    ELSE IF ~IsAsciiDigit(s[at]) THEN NoValue
    ELSE IF neg
    THEN (IF acc < -214748364 \/ (acc = -214748364 /\ DigitValue(s[at]) > 8) THEN NoValue
          ELSE ParseDigits(s, at + 1, acc * 10 - DigitValue(s[at]), neg))
    ELSE (IF acc > 214748364 \/ (acc = 214748364 /\ DigitValue(s[at]) > 7) THEN NoValue
          ELSE ParseDigits(s, at + 1, acc * 10 + DigitValue(s[at]), neg))

\* str::parse::<i32>: an optional sign and at least one digit
ParseI32(s) ==
    IF s = <<>> THEN NoValue
    ELSE IF s[1] \in {"+", "-"}
    THEN (IF Len(s) = 1 THEN NoValue ELSE ParseDigits(s, 2, 0, s[1] = "-"))
    ELSE ParseDigits(s, 1, 0, FALSE)

to_int(val) ==
    CASE val.tag = "Str" -> IF ParseI32(val.v).some THEN ParseI32(val.v).v ELSE 0
      [] val.tag = "Int" -> val.v
      [] val.tag = "Float" -> F32ToInt(val.v)
      [] val.tag = "Bool" -> IF val.v THEN 1 ELSE 0
      [] OTHER -> 0

\* 10^k
RECURSIVE Pow10(_)
Pow10(k) == IF k = 0 THEN 1 ELSE 10 * Pow10(k - 1)

\* the position of the first "." of s, or Len(s) + 1
RECURSIVE DotAt(_, _)
DotAt(s, at) == IF at > Len(s) \/ s[at] = "." THEN at ELSE DotAt(s, at + 1)

\* str::parse::<f32> on an unsigned string: inf, infinity, nan, or digits with
\* at most one "." and a digit on one side of it.  Exponents, upper case and
\* more digits than an i32 holds are left out: the strings drawn have none.
ParseUnsignedF32(s, neg) ==
    LET dot == DotAt(s, 1)
        whole == SubSeq(s, 1, dot - 1)
        frac == SubSeq(s, dot + 1, Len(s))
        n == ParseDigits(whole \o frac, 1, 0, FALSE)
    IN  IF s \in {<<"i", "n", "f">>, <<"i", "n", "f", "i", "n", "i", "t", "y">>}
        THEN Some(FInf(neg))
        ELSE IF s = <<"n", "a", "n">> THEN Some(FNaN)
        ELSE IF whole \o frac = <<>> \/ ~n.some THEN NoValue
        ELSE IF n.v = 0 THEN Some(FZero(neg))
        ELSE Some(FRat(IF neg THEN -n.v ELSE n.v, Pow10(Len(frac))))

ParseF32(s) ==
    IF s # <<>> /\ s[1] \in {"+", "-"}
    THEN ParseUnsignedF32(Tail(s), s[1] = "-")
    ELSE ParseUnsignedF32(s, FALSE)

to_float(val) ==
    CASE val.tag = "Str" -> IF ParseF32(val.v).some THEN ParseF32(val.v).v ELSE FZero(FALSE)
      [] val.tag = "Int" -> IntToF32(val.v)
      [] val.tag = "Float" -> val.v
      [] val.tag = "Bool" -> IF val.v THEN IntToF32(1) ELSE FZero(FALSE)
      [] OTHER -> FZero(FALSE)

\* Value::to_string.  [abort, s]: rendering a List indexes the first byte of each
\* key, which panics on an empty key.
RECURSIVE to_string(_)
RECURSIVE ListBody(_, _)
ListBody(l, at) ==
    IF at > Len(l) THEN [abort |-> FALSE, s |-> <<>>]
    ELSE LET key == l[at][1]
             val == to_string(l[at][2])
             rest == ListBody(l, at + 1)
         IN  IF key = <<>> \/ val.abort \/ rest.abort THEN [abort |-> TRUE, s |-> <<>>]
             ELSE [abort |-> FALSE,
                   s |-> (IF ~IsAsciiDigit(key[1]) THEN key \o <<":", " ">> ELSE <<>>)
                             \o val.s \o <<",", " ">> \o rest.s]

to_string(val) ==
    CASE val.tag = "Str" -> [abort |-> FALSE, s |-> val.v]
      [] val.tag = "Int" -> [abort |-> FALSE, s |-> IntToString(val.v)]
      [] val.tag = "Float" -> [abort |-> FALSE, s |-> FloatToString(val.v)]
      [] val.tag = "Bool" ->
            [abort |-> FALSE,
             s |-> IF val.v THEN <<"t", "r", "u", "e">> ELSE <<"f", "a", "l", "s", "e">>]
      [] val.tag = "List" ->
            LET body == ListBody(val.v, 1)
                ret == <<"[">> \o body.s
            IN  IF body.abort THEN body
                ELSE [abort |-> FALSE,
                      s |-> (IF Len(ret) # 1 THEN SubSeq(ret, 1, Len(ret) - 2) ELSE ret)
                                \o <<"]">>]
      [] val.tag = "None" -> [abort |-> FALSE, s |-> <<"n", "o", "n", "e">>]
      [] val.tag = "Iter" ->
            [abort |-> FALSE,
             s |-> <<"_", "_", "b", "u", "r", "l", "a", "p", "_", "i", "t", "e", "r">>]

is_truthy(val) ==
    CASE val.tag = "Str" -> val.v # <<>>
      [] val.tag = "Int" -> val.v # 0
      [] val.tag = "Float" -> ~FIsZero(val.v)
      [] val.tag = "Bool" -> val.v
      [] val.tag = "List" -> val.v # <<>>
      [] OTHER -> FALSE

get_type(val) ==
    CASE val.tag = "Str" -> "String"
      [] val.tag = "Int" -> "Number"
      [] val.tag = "Float" -> "Decimal"
      [] val.tag = "Bool" -> "Bool"
      [] val.tag = "List" -> "List"
      [] val.tag = "None" -> "None"
      [] val.tag = "Iter" -> "__burlap_iter"

\* ---- iterators ---------------------------------------------------------------
\* list.values().map(|i| i.clone()).collect()
ValuesOf(l) == [k \in 1..Len(l) |-> l[k][2]]

\* Value::to_iter: Result<Value, String>; the message is <<text, type>>
to_iter(self) ==
    IF self.tag = "Iter" THEN Ok(self)
    ELSE IF self.tag # "List" THEN Err(<<"Cannot iterate over {}", get_type(self)>>)
    ELSE Ok(VIter(ValuesOf(self.v), 0))

\* iter_next with a cursor that stays where it is
IterNextStuck(self) ==
    IF self.tag # "Iter"
    THEN [self |-> self, result |-> Err(<<"Require __burlap_iter not {}", get_type(self)>>)]
    ELSE LET list == self.v[1]
             at == self.v[2]
         IN  [self |-> self,
              result |-> Ok(IF at >= 0 /\ at < Len(list) THEN Some(list[at + 1]) ELSE NoValue)]

\* Value::iter_next(&mut self): [self, result], the result a
\* Result<Option<Value>, String>.  `at as usize` of a negative cursor is beyond
\* every list; `*at += 1` is i32 arithmetic.
iter_next(self) ==
    IF self.tag # "Iter"
    THEN [self |-> self, result |-> Err(<<"Require __burlap_iter not {}", get_type(self)>>)]
    ELSE LET list == self.v[1]
             at == self.v[2]
             ret == IF at >= 0 /\ at < Len(list) THEN Some(list[at + 1]) ELSE NoValue
             next == I32Add(at, 1)
         IN  IF next.abort
             THEN [self |-> self, result |-> Abort("attempt to add with overflow")]
             ELSE [self |-> VIter(list, next.v), result |-> Ok(ret)]

\* ---- indexing ----------------------------------------------------------------
\* IndexMap::get: the value of the entry with this key
MapGet(l, key) ==
    IF \E k \in 1..Len(l) : l[k][1] = key
    THEN Some(l[CHOOSE k \in 1..Len(l) : l[k][1] = key][2])
    ELSE NoValue

\* IndexMap::get_index(i as usize) for an i32 i: a negative i is beyond every map
MapGetIndex(l, i) == IF i >= 0 /\ i < Len(l) THEN Some(l[i + 1][2]) ELSE NoValue

\* Value::index reading a String key that no entry has as a position
IndexAbsentKeyAsPosition(self, key) ==
    IF self.tag # "List" THEN NoValue
    ELSE IF key.tag = "Str" /\ MapGet(self.v, key.v).some THEN MapGet(self.v, key.v)
    ELSE MapGetIndex(self.v, to_int(key))

\* Value::index: Option<&Value>
value_index(self, key) ==
    IF self.tag # "List" THEN NoValue
    ELSE IF key.tag = "Str" THEN MapGet(self.v, key.v)
    ELSE MapGetIndex(self.v, to_int(key))

\* ---- equality ----------------------------------------------------------------
\* == on f32
FEq(x, y) == ~FIsNaN(x) /\ ~FIsNaN(y) /\ (x = y \/ (FIsZero(x) /\ FIsZero(y)))

\* Value::eq
eq(self, right) ==
    CASE self.tag = "Str" -> right.tag = "Str" /\ self.v = right.v
      [] self.tag = "None" -> right.tag = "None"
      [] self.tag = "Bool" -> right.tag = "Bool" /\ self.v = right.v
      [] self.tag = "Float" ->
            IF right.tag = "Float" THEN FEq(self.v, right.v)
            ELSE IF right.tag = "Int" THEN FEq(self.v, IntToF32(right.v))
            ELSE FALSE
      [] self.tag = "Int" ->
            IF right.tag = "Float" THEN FEq(IntToF32(self.v), right.v)
            ELSE IF right.tag = "Int" THEN self.v = right.v
            ELSE FALSE
      [] OTHER -> FALSE

\* ---- do_op! ----------------------------------------------------------------
FloatOp(op, x, y) ==
    CASE op = "+" -> FAdd(x, y)
      [] op = "-" -> FSub(x, y)
      [] op = "*" -> FMul(x, y)
      [] op = "/" -> FDiv(x, y)
      [] op = "%" -> FRem(x, y)

\* i32 / i32 truncates and panics on a zero divisor and on i32::MIN / -1
I32Div(a, b) ==
    IF b = 0 \/ (a = I32Min /\ b = -1) THEN I32Panic
    ELSE IF b = I32Min THEN I32Ok(IF a = I32Min THEN 1 ELSE 0)
    ELSE IF a = I32Min THEN I32Ok(-Sign(b) * (((I32Max \div Abs(b)))
                                   + (IF I32Max % Abs(b) = Abs(b) - 1 THEN 1 ELSE 0)))
    ELSE I32Ok(Sign(a) * Sign(b) * (Abs(a) \div Abs(b)))

IntOp(op, a, b) ==
    CASE op = "+" -> I32Add(a, b)
      [] op = "-" -> I32Sub(a, b)
      [] op = "*" -> I32Mul(a, b)
      [] op = "/" -> I32Div(a, b)
      [] op = "%" -> I32Rem(a, b)

do_op(left, right, op, errval) ==
    CASE left.tag = "Float" ->
            IF right.tag = "Float" THEN Ok(VFloat(FloatOp(op, left.v, right.v)))
            ELSE IF right.tag = "Int"
                 THEN Ok(VFloat(FloatOp(op, left.v, IntToF32(right.v))))
            ELSE errval
      [] left.tag = "Int" ->
            IF right.tag = "Float"
            THEN Ok(VFloat(FloatOp(op, IntToF32(left.v), right.v)))
            ELSE IF right.tag = "Int"
                 THEN LET r == IntOp(op, left.v, right.v)
                      IN  IF r.abort THEN Abort("arithmetic overflow") ELSE Ok(VInt(r.v))
            ELSE errval
      [] OTHER -> errval

\* ---- the operators ---------------------------------------------------------
BoolToI32(b) == IF b THEN 1 ELSE 0

RECURSIVE Repeat(_, _)
Repeat(s, n) == IF n = 0 THEN <<>> ELSE s \o Repeat(s, n - 1)

\* impl * for Value
RECURSIVE Mul(_, _)
Mul(left, right) ==
    CASE left.tag = "Str" ->
            IF right.tag = "Int"
            THEN Ok(IF right.v > 0 THEN VStr(Repeat(left.v, right.v)) ELSE VStr(<<>>))
            ELSE Err("can only multiply string with number")
      [] left.tag = "Bool" ->
            IF right.tag = "Bool" THEN Ok(VBool(left.v \/ right.v))
            ELSE Mul(VInt(BoolToI32(left.v)), right)
      [] left.tag = "None" -> Ok(VNone)
      [] OTHER -> do_op(left, right, "*", Err("multiplication failed"))

\* impl + for Value
Add(left, right) ==
    CASE left.tag = "Str" ->
            LET r == to_string(right)
            IN  IF r.abort THEN Abort("index out of bounds") ELSE Ok(VStr(left.v \o r.s))
      [] left.tag = "Bool" ->
            IF right.tag = "Bool" THEN Ok(VBool(left.v \/ right.v))
            ELSE Mul(VInt(BoolToI32(left.v)), right)
      [] left.tag = "None" -> Ok(VNone)
      [] OTHER -> do_op(left, right, "+", Err("addition failed"))

\* impl - for Value
RECURSIVE Sub(_, _)
\* Sub with the error arm addition and multiplication have
SubFailing(left, right) ==
    CASE left.tag = "Str" -> Err("cannot subtract from string")
      [] left.tag = "Bool" ->
            IF right.tag = "Bool" THEN Ok(VBool(left.v # right.v))
            ELSE Sub(VInt(BoolToI32(left.v)), right)
      [] left.tag = "None" -> Ok(VNone)
      [] OTHER -> do_op(left, right, "-", Err("subtraction failed"))

Sub(left, right) ==
    CASE left.tag = "Str" -> Err("cannot subtract from string")
      [] left.tag = "Bool" ->
            IF right.tag = "Bool" THEN Ok(VBool(left.v # right.v))
            ELSE Sub(VInt(BoolToI32(left.v)), right)
      [] left.tag = "None" -> Ok(VNone)
      [] OTHER -> do_op(left, right, "-", Ok(VNone))

\* impl / for Value
RECURSIVE Div(_, _)
\* Div without the promotion of an Int left operand
DivTruncating(left, right) ==
    CASE left.tag = "Str" -> Err("cannot divide string")
      [] left.tag = "Bool" -> Div(VFloat(IntToF32(BoolToI32(left.v))), right)
      [] left.tag = "None" -> Ok(VNone)
      [] OTHER -> do_op(left, right, "/", Err("division failed"))

Div(left, right) ==
    CASE left.tag = "Str" -> Err("cannot divide string")
      [] left.tag = "Bool" -> Div(VFloat(IntToF32(BoolToI32(left.v))), right)
      [] left.tag = "Int" -> Div(VFloat(IntToF32(left.v)), right)
      [] left.tag = "None" -> Ok(VNone)
      [] OTHER -> do_op(left, right, "/", Err("division failed"))

\* impl % for Value
RECURSIVE Mod(_, _)
\* Mod without the None arm
ModOfNoneFailing(left, right) ==
    CASE left.tag = "Str" -> Err("cannot modulo string")
      [] left.tag = "Bool" -> Mod(VInt(BoolToI32(left.v)), right)
      [] OTHER -> do_op(left, right, "%", Err("modulo failed"))

Mod(left, right) ==
    CASE left.tag = "Str" -> Err("cannot modulo string")
      [] left.tag = "Bool" -> Mod(VInt(BoolToI32(left.v)), right)
      [] left.tag = "None" -> Ok(VNone)
      [] OTHER -> do_op(left, right, "%", Err("modulo failed"))

Apply(op, left, right) ==
    CASE op = "+" -> Add(left, right)
      [] op = "-" -> Sub(left, right)
      [] op = "*" -> Mul(left, right)
      [] op = "/" -> Div(left, right)
      [] op = "%" -> Mod(left, right)

\* ---- the operands the specification of the value model draws -------------
StrValues == {VStr(<<>>), VStr(<<"a", "b">>), VStr(<<"7">>)}
IntValues == {VInt(I32Min), VInt(-1), VInt(0), VInt(1), VInt(2), VInt(5), VInt(I32Max)}
FloatValues == {VFloat(FZero(FALSE)), VFloat(<<1, 2>>), VFloat(<<5, 2>>), VFloat(<<-1, 1>>),
                VFloat(FNaN), VFloat(FInf(FALSE))}
BoolValues == {VBool(TRUE), VBool(FALSE)}
ListEntries == << <<<<"0">>, VInt(10)>>, <<<<"1">>, VInt(20)>>, <<<<"a">>, VFloat(<<1, 2>>)>> >>
ListValues == {VList(<<>>), VList(ListEntries), VList(<< <<<<>>, VInt(1)>> >>),
               VList(<< <<<<"k">>, VList(SubSeq(ListEntries, 1, 1))>> >>)}
IterValues == {VIter(<<VInt(10), VInt(20)>>, 0), VIter(<<>>, 1)}
Values == StrValues \cup IntValues \cup FloatValues \cup BoolValues \cup ListValues
              \cup {VNone} \cup IterValues

Numeric(val) == val.tag \in {"Int", "Float"}

\* The rational stand-in for f32 and the explicit string of a repetition cover
\* these operand pairs: no i32 beyond 2^24 is converted to f32 and no string is
\* repeated that many times.
WideInt(val) == val.tag = "Int" /\ (val.v > 16777216 \/ val.v < -16777216)
UsesF32(op, left, right) ==
    /\ left.tag \in {"Int", "Float", "Bool"}
    /\ Numeric(right)
    /\ (op = "/" \/ left.tag = "Float" \/ right.tag = "Float")
InModel(op, left, right) ==
    /\ ~(UsesF32(op, left, right) /\ (WideInt(left) \/ WideInt(right)))
    /\ ~(op = "*" /\ left.tag = "Str" /\ WideInt(right))

(***************************************************************************)
(* Part II.  src/backend/vm/compiler.rs                                    *)
(***************************************************************************)

\* ---- the Compiler ----------------------------------------------------------
\* One record holds the Compiler and its Program.
\*   ops         Program::ops.  An instruction word is [op, arg]: the opcode byte
\*               and the 24 bits of the operand bytes a, b, c
\*   consts      Program::consts, the entries pushed in this run
\*   pool_base   the number of entries the pool held before this run, none of
\*               them equal to a value emitted in it: consts[k] has index
\*               pool_base + k - 1
\*   functis     Program::functis: <<name, position, arg_num>>
\*   regs        regs[r + 1] is TRUE while register r is free
\*   functi      Option<FunctiData>: [some, name, arg_num, locals]
\*   ast_set     whether Compiler::ast points at an AST
\*   halt        "" while compiling goes on; "none" once a function returned
\*               None, which `?` hands up to compile(); otherwise the message of
\*               the panic that ended the process
STACK == 16
NumRegs == 17

NoFuncti == [some |-> FALSE, name |-> <<>>, arg_num |-> 0, locals |-> <<>>]

NewCompiler ==
    [ops |-> <<>>, consts |-> <<>>, pool_base |-> 0, functis |-> <<>>,
     line_table |-> <<>>, file_table |-> <<>>,
     needs_args |-> FALSE, inc_start |-> 0, line_start |-> 0, old_line |-> 0,
     break_addrs |-> <<>>, loop_top |-> 0,
     regs |-> [r \in 1..NumRegs |-> TRUE], on_stack_only |-> FALSE,
     ast_set |-> FALSE, functi |-> NoFuncti, halt |-> ""]

Halted(c) == c.halt # ""
Panic(c, m) == IF Halted(c) THEN c ELSE [c EXCEPT !.halt = m]
ReturnNone(c) == IF Halted(c) THEN c ELSE [c EXCEPT !.halt = "none"]
\* an assignment to a field of the Compiler
Set(c, field, value) == IF Halted(c) THEN c ELSE [c EXCEPT ![field] = value]

\* the operand bytes of an instruction word
Byte(n) == n % 256
Pack(a, b, c) == a * 65536 + b * 256 + c
ArgA(i) == (i.arg \div 65536) % 256
ArgB(i) == (i.arg \div 256) % 256
ArgC(i) == i.arg % 256

add_op_args(c, op, a, b, cc) ==
    IF Halted(c) THEN c
    ELSE [c EXCEPT !.ops = Append(@, [op |-> op, arg |-> Pack(a, b, cc)])]

add_op(c, op) == add_op_args(c, op, 0, 0, 0)

copy(c, src, dst) == add_op_args(c, "CP", src, dst, 0)

move_(c, src, dst) ==
    IF dst > 16 THEN Panic(c, "Attempt to mutate a non-mutable register")
    ELSE IF src = dst THEN c
    ELSE LET c1 == copy(c, src, dst)
         IN  IF src = STACK THEN add_op(c1, "POP") ELSE c1

dup(c) == add_op_args(c, "CP", STACK, STACK, 0)

\* ---- register allocation ---------------------------------------------------
\* A function that returns a register returns [c, reg].
use_reg(c, reg) == IF Halted(c) THEN c ELSE [c EXCEPT !.regs[reg + 1] = FALSE]

\* a variant that takes the highest free register
LastFree(regs) ==
    IF \E r \in 1..NumRegs : regs[r]
    THEN (CHOOSE r \in 1..NumRegs : regs[r] /\ \A q \in (r + 1)..NumRegs : ~regs[q]) - 1
    ELSE -1

FirstFree(regs) ==
    IF \E r \in 1..NumRegs : regs[r]
    THEN (CHOOSE r \in 1..NumRegs : regs[r] /\ \A q \in 1..(r - 1) : ~regs[q]) - 1
    ELSE -1

alloc_reg(c) ==
    IF Halted(c) THEN [c |-> c, reg |-> STACK]
    ELSE IF c.on_stack_only THEN [c |-> c, reg |-> STACK]
    ELSE LET reg == FirstFree(c.regs)
         IN  IF reg = -1 THEN [c |-> c, reg |-> STACK]
             ELSE [c |-> use_reg(c, reg), reg |-> reg]

free_reg(c, reg) ==
    IF Halted(c) THEN c
    ELSE IF reg = 16 THEN c
    ELSE IF reg < 16 THEN [c EXCEPT !.regs[reg + 1] = TRUE]
    ELSE c

get_mut_reg(c, reg) ==
    IF ~(17 <= reg /\ reg <= 115) THEN [c |-> c, reg |-> reg] ELSE alloc_reg(c)

to_mut_reg(c, reg) ==
    LET r == get_mut_reg(c, reg)
    IN  IF reg # r.reg THEN [c |-> move_(r.c, reg, r.reg), reg |-> r.reg] ELSE r

get_sole_reg(c, reg) ==
    IF reg <= 16 THEN [c |-> c, reg |-> reg] ELSE alloc_reg(c)

\* ---- the constant pool -----------------------------------------------------
\* #[derive(PartialEq)] on Value: structural; a NaN equals nothing, 0.0 equals -0.0
ValuePartialEq(a, b) ==
    IF a.tag = "Float" /\ b.tag = "Float"
    THEN /\ ~FIsNaN(a.v)
         /\ ~FIsNaN(b.v)
         /\ (a.v = b.v \/ (FIsZero(a.v) /\ FIsZero(b.v)))
    ELSE a = b

\* Value::Functi(name), a constant of the compiler
VFuncti(name) == [tag |-> "Functi", v |-> name]

\* a variant that finds nothing
PositionOfNothing(consts, val) == 0

\* consts.iter().position(|i| i.clone() == val): the position in consts, or 0
Position(consts, val) ==
    IF \E k \in 1..Len(consts) : ValuePartialEq(consts[k], val)
    THEN CHOOSE k \in 1..Len(consts) :
            /\ ValuePartialEq(consts[k], val)
            /\ \A j \in 1..(k - 1) : ~ValuePartialEq(consts[j], val)
    ELSE 0

\* "Get the index, or append": the pool after the lookup, and the index
Intern(c, val) ==
    LET k == Position(c.consts, val)
    IN  IF k # 0 THEN [c |-> c, index |-> c.pool_base + k - 1]
        ELSE [c |-> [c EXCEPT !.consts = Append(@, val)],
              index |-> c.pool_base + Len(c.consts)]

push_to_stack(c, val) ==
    IF Halted(c) THEN c
    ELSE LET i == Intern(c, val)
             index == i.index
         IN  IF index > 16777215
             THEN Panic(i.c, "Too many different constants! You have over 16777215 constants!!")
             ELSE add_op_args(i.c, "LDL", Byte(index \div 65536), Byte(index \div 256),
                              Byte(index))

\* a variant that loads every constant into a register
push_to_loading(c, val, reg) ==
    IF Halted(c) THEN [c |-> c, reg |-> STACK]
    ELSE LET i == Intern(c, val)
             r == IF reg # -1 THEN [c |-> i.c, reg |-> reg] ELSE alloc_reg(i.c)
         IN  [c |-> add_op_args(r.c, "LD", Byte(i.index \div 256), Byte(i.index), r.reg),
              reg |-> r.reg]

\* a variant that takes every index past the pseudo-registers for a three-byte one
push_to_long(c, val, reg) ==
    IF Halted(c) THEN [c |-> c, reg |-> STACK]
    ELSE LET i == Intern(c, val)
             index == i.index
         IN  IF index > 16777215
             THEN [c |-> Panic(i.c, "Too many different constants! You have over 16777215 constants!!"),
                   reg |-> STACK]
             ELSE IF index > 97
             THEN LET c1 == add_op_args(i.c, "LDL", Byte(index \div 65536),
                                        Byte(index \div 256), Byte(index))
                  IN  IF reg # -1 THEN [c |-> move_(c1, STACK, reg), reg |-> reg]
                      ELSE [c |-> c1, reg |-> STACK]
             ELSE IF reg = -1
             THEN [c |-> i.c, reg |-> index + 17]
             ELSE [c |-> add_op_args(i.c, "LD", Byte(index \div 256), Byte(index), reg),
                   reg |-> reg]

\* reg is -1 for None
push_to(c, val, reg) ==
    IF Halted(c) THEN [c |-> c, reg |-> STACK]
    ELSE LET i == Intern(c, val)
             index == i.index
         IN  IF index > 16777215
             THEN [c |-> Panic(i.c, "Too many different constants! You have over 16777215 constants!!"),
                   reg |-> STACK]
             ELSE IF index > 65535
             THEN LET c1 == add_op_args(i.c, "LDL", Byte(index \div 65536),
                                        Byte(index \div 256), Byte(index))
                  IN  IF reg # -1 THEN [c |-> move_(c1, STACK, reg), reg |-> reg]
                      ELSE [c |-> c1, reg |-> STACK]
             ELSE IF reg = -1 /\ index < 98
             THEN [c |-> i.c, reg |-> index + 17]
             ELSE LET r == IF reg # -1 THEN [c |-> i.c, reg |-> reg] ELSE alloc_reg(i.c)
                  IN  [c |-> add_op_args(r.c, "LD", Byte(index \div 256), Byte(index), r.reg),
                       reg |-> r.reg]

push(c, val) == push_to(c, val, -1)

\* ---- jumps -------------------------------------------------------------------
\* fill_jmp computing the offset of a forward jump as ops.len() - pos
FillJmpShort(c, pos, i0, reg) ==
    IF Halted(c) THEN c
    ELSE LET i == IF i0 = 0 THEN Len(c.ops) - pos ELSE i0
         IN  IF pos < 1 \/ pos > Len(c.ops) THEN Panic(c, "index out of bounds")
             ELSE IF reg # -1 /\ i > 65535 THEN Panic(c, "jump offset is over 2 bytes!")
             ELSE IF reg = -1 /\ i > 16777215 THEN Panic(c, "jump offset is over 3 bytes!")
             ELSE [c EXCEPT !.ops[pos].arg =
                              @ + (IF reg # -1 THEN Byte(reg) * 65536 ELSE 0) + i]

\* reg is -1 for None.  `*op += ..` adds to the word: with no reg the three masked
\* parts of i add up to i, with a reg the low 16 bits of i and reg << 16.
fill_jmp(c, pos, i0, reg) ==
    IF Halted(c) THEN c
    ELSE LET i == IF i0 = 0 THEN (Len(c.ops) - pos) + 1 ELSE i0
         IN  IF pos < 1 \/ pos > Len(c.ops) THEN Panic(c, "index out of bounds")
             ELSE IF reg # -1 /\ i > 65535 THEN Panic(c, "jump offset is over 2 bytes!")
             ELSE IF reg = -1 /\ i > 16777215 THEN Panic(c, "jump offset is over 3 bytes!")
             ELSE [c EXCEPT !.ops[pos].arg =
                              @ + (IF reg # -1 THEN Byte(reg) * 65536 ELSE 0) + i]

\* a - b in usize: panics where the build checks overflow, else wraps to a value
\* no jump can hold; fill_jmp panics on it.  -1 stands for both.
UsizeSub(a, b) == IF a >= b THEN a - b ELSE -1

fill_jmp_back(c, pos, dist) ==
    IF dist < 0 THEN Panic(c, "attempt to subtract with overflow / jump offset is over 3 bytes!")
    ELSE fill_jmp(c, pos, dist, -1)

\* ---- the AST the parser hands over (crate::parser, not in this repository's src)
\* A name is <<module, base>>, written module::base in the source; split("::")
\* gives the two parts.
Q(base) == <<"", base>>
SplitNth1(name) == IF Len(name) >= 2 THEN <<name[2]>> ELSE <<>>
\* AST::all_vars: the global variables
all_vars == <<Q("x"), Q("y"), Q("l")>>
\* AST::get_functi: the FunctiData of each declared function
FunctiNames == {Q("f"), Q("g"), Q("h")}
get_functi(name) ==
    CASE name = Q("f") -> [some |-> TRUE, name |-> name, arg_num |-> 1,
                            locals |-> <<Q("a")>>]
      [] name = Q("g") -> [some |-> TRUE, name |-> name, arg_num |-> 2,
                            locals |-> <<Q("a"), Q("b"), Q("t")>>]
      [] name = Q("h") -> [some |-> TRUE, name |-> name, arg_num |-> 0,
                            locals |-> <<>>]

IndexOf(seq, x) ==
    IF \E k \in 1..Len(seq) : seq[k] = x
    THEN (CHOOSE k \in 1..Len(seq) : seq[k] = x) - 1
    ELSE -1

\* AST::get_var_offset(var, functi): the slot of var in the function's frame, or
\* in the globals when functi is None; -1 for None
ast_get_var_offset(var, functi) ==
    IF functi.some THEN IndexOf(functi.locals, var) ELSE IndexOf(all_vars, var)

\* ---- variables ---------------------------------------------------------------
\* Compiler::get_var_offset: [some, offset, global]
get_var_offset(c, var) ==
    LET offset == ast_get_var_offset(var, c.functi)
    IN  IF offset = -1 /\ c.functi.some
        THEN LET g == ast_get_var_offset(var, NoFuncti)
             IN  [some |-> g # -1, offset |-> g, global |-> TRUE]
        ELSE [some |-> offset # -1, offset |-> offset, global |-> ~c.functi.some]

\* Compiler::_var: [c, some]
_var(c, var, reg, op0) ==
    LET o == get_var_offset(c, var)
        op == IF o.global /\ op0 = "SV_L" THEN "SV_G"
              ELSE IF o.global /\ op0 = "LV_L" THEN "LV_G"
              ELSE op0
    IN  IF Halted(c) \/ ~o.some THEN [c |-> c, some |-> FALSE]
        ELSE [c |-> add_op_args(c, op, Byte(o.offset \div 256), Byte(o.offset), reg),
              some |-> TRUE]

set_var(c, var, reg) ==
    LET r == _var(c, var, reg, IF ~c.functi.some THEN "SV_G" ELSE "SV_L")
    IN  IF Halted(c) THEN c
        ELSE IF ~r.some THEN Panic(c, "called Option::unwrap() on a None value")
        ELSE r.c

load_var(c, var) ==
    IF Halted(c) THEN [c |-> c, reg |-> STACK]
    ELSE LET a == alloc_reg(c)
             r == _var(a.c, var, a.reg, IF ~c.functi.some THEN "LV_G" ELSE "LV_L")
         IN  IF ~r.some
             THEN LET c1 == free_reg(a.c, a.reg)
                      name == IF Len(var) >= 2 THEN SplitNth1(var) ELSE var
                  IN  IF name = <<"__burlap_debug_blackbox">> THEN push(c1, VNone)
                      ELSE push(c1, VFuncti(name))
             ELSE [c |-> r.c, reg |-> a.reg]

\* ---- the tree ------------------------------------------------------------------
\* An ASTNode is a record with its kind in k; a StmtNode is [line, node].
\*   Var(name)  String(val)  Number(val)  Decimal(val)  Bool(val)  None
\*   Binop(lhs, op, rhs)  Unary(op, val)  Call(expr, args)
\*   List(keys, values, fast)  Index(val, index)  Functi(name, body)
\*   Let(names, vals)  If(cond, body, else_part)  Loop(body)
\*   IterLoop(var, iter, body)  While(cond, body)  Break  Continue
\*   Body(nodes)  Return(ret)  Import  EndImport(file)  Nop
\* Option<String> filename: [some, v]
Nop == [k |-> "Nop"]

\* compile_expr, compile_binop, compile_functi and compile_stmt call one another:
\* Compile(fn, c, args) is the call fn(c, args[1], ..)
RECURSIVE Compile(_, _, _)
RECURSIVE compile_set(_, _, _)
RECURSIVE PushArgs(_, _, _, _)
RECURSIVE BuildList(_, _, _, _, _)
RECURSIVE _compile_body(_, _, _)
RECURSIVE FillBreaks(_, _, _)
RECURSIVE CompileLets(_, _, _, _)

\* The({ e : x \in {d} }) is e with x standing for the value of d: `let x = d;`
\* followed by e.  A chain of them reads from its last line up to its first.
The(S) == CHOOSE e \in S : TRUE

SetOps == {"PlusEquals", "MinusEquals", "TimesEquals", "DivEquals", "ModEquals", "Equals"}

compile_unary(c, op, val) ==
    CASE op = "Minus" ->
            The({ The({ The({
                [c |-> free_reg(add_op_args(res.c, "SUB", tmp.reg, r.reg, res.reg), tmp.reg),
                 reg |-> res.reg]
            : res \in {get_sole_reg(r.c, r.reg)} })
            : r \in {Compile("compile_expr", tmp.c, <<val>>)} })
            : tmp \in {push(c, VInt(0))} })
      [] op = "Not" ->
            The({ The({
                [c |-> add_op_args(res.c, "NOT", r.reg, res.reg, 0), reg |-> res.reg]
            : res \in {get_sole_reg(r.c, r.reg)} })
            : r \in {Compile("compile_expr", c, <<val>>)} })
      [] op \in {"PlusPlus", "MinusMinus"} ->
            The({ The({ The({ The({ The({
                IF val.k # "Var"
                THEN [c |-> Panic(c3, IF op = "PlusPlus"
                                      THEN "++ needs a var, how did you do this?"
                                      ELSE "-- needs a var, how did you do this?"),
                      reg |-> STACK]
                ELSE [c |-> set_var(c3, val.name, res.reg),
                      reg |-> IF op = "PlusPlus" THEN r.reg ELSE res.reg]
            : c3 \in {free_reg(IF r.reg = STACK THEN dup(c1) ELSE c1, tmp.reg)} })
            : c1 \in {add_op_args(res.c, IF op = "PlusPlus" THEN "ADD" ELSE "SUB",
                                  r.reg, tmp.reg, res.reg)} })
            : res \in {get_mut_reg(tmp.c, r.reg)} })
            : tmp \in {push(r.c, VInt(1))} })
            : r \in {Compile("compile_expr", c, <<val>>)} })
      [] OTHER -> [c |-> Panic(c, "IMPOSSIBLE_STATE"), reg |-> STACK]

compile_set(c, lvalue, value) ==
    IF Halted(c) THEN c
    ELSE IF lvalue.k = "Var"
    THEN free_reg(set_var(c, lvalue.name, value), value)
    ELSE IF lvalue.k = "Index"
    THEN The({ The({
             compile_set(free_reg(free_reg(add_op_args(lreg.c, "SKY", lreg.reg, ireg.reg, value),
                                           value),
                                  ireg.reg),
                         lvalue.val, lreg.reg)
         : lreg \in {Compile("compile_expr", ireg.c, <<lvalue.val>>)} })
         : ireg \in {Compile("compile_expr", c, <<lvalue.index>>)} })
    ELSE Panic(c, "Cannot compile_set for something other then a variable or index")

compile_short_binop(c, lhs, op, rhs, clean) ==
    The({ The({ The({ The({ The({ The({
        [c |-> IF clean
               THEN free_reg(IF l.reg = STACK THEN add_op(c9, "POP") ELSE c9, l.reg)
               ELSE c9,
         reg |-> l.reg]
    : c9 \in {fill_jmp(free_reg(move_(r.c, r.reg, l.reg), r.reg),
                       Len(c4.ops), 0, dup_tmp.reg)} })
    : r \in {Compile("compile_expr",
                     IF l.reg = STACK THEN add_op(free_reg(c4, dup_tmp.reg), "POP")
                     ELSE free_reg(c4, dup_tmp.reg),
                     <<rhs>>)} })
    : c4 \in {add_op(IF op # "Or"
                     THEN add_op_args(c2, "NOT", dup_tmp.reg, dup_tmp.reg, 0)
                     ELSE c2,
                     "JMPNT")} })
    : c2 \in {add_op_args(IF l.reg = STACK THEN dup(dup_tmp.c) ELSE dup_tmp.c,
                          "NOT", l.reg, dup_tmp.reg, 0)} })
    : dup_tmp \in {alloc_reg(l.c)} })
    : l \in {Compile("compile_expr", c, <<lhs>>)} })

\* the instructions of an operator of compile_binop; <<>> for one it has none for
BinopInstrs(op) ==
    CASE op \in {"Plus", "PlusEquals"} -> <<"ADD">>
      [] op \in {"Minus", "MinusEquals"} -> <<"SUB">>
      [] op \in {"Times", "TimesEquals"} -> <<"MUL">>
      [] op \in {"Div", "DivEquals"} -> <<"DIV">>
      [] op \in {"Modulo", "ModEquals"} -> <<"MOD">>
      [] op = "Xor" -> <<"XOR">>
      [] op = "Gt" -> <<"GT">>
      [] op = "Lt" -> <<"LT">>
      [] op = "EqualsEquals" -> <<"EQ">>
      [] op = "In" -> <<"IN">>
      [] op = "NotEquals" -> <<"EQ", "NOT">>
      [] op = "LtEquals" -> <<"GT", "NOT">>
      [] op = "GtEquals" -> <<"LT", "NOT">>
      [] op = "Colon" -> <<"INX">>
      [] OTHER -> <<>>

compile_binop(c, lhs0, op, rhs0, clean) ==
    IF op \in {"And", "Or"} THEN compile_short_binop(c, lhs0, op, rhs0, clean)
    ELSE
    The({ The({ The({ The({ The({
        IF op \in SetOps
        THEN The({ [c |-> compile_set(m.c, IF op = "In" THEN rhs0 ELSE lhs0, m.reg),
                    reg |-> m.reg]
                 : m \in {IF op = "Equals"
                          THEN [c |-> free_reg(c2, res.reg), reg |-> r.reg]
                          ELSE to_mut_reg(c2, res.reg)} })
        ELSE IF clean
        THEN [c |-> free_reg(free_reg(IF l.reg = STACK THEN add_op(c2, "POP") ELSE c2,
                                      r.reg),
                             l.reg),
              reg |-> res.reg]
        ELSE [c |-> free_reg(free_reg(c2, l.reg), r.reg), reg |-> res.reg]
    : c2 \in {IF Len(BinopInstrs(op)) = 2
              THEN add_op_args(c1, BinopInstrs(op)[2], res.reg, res.reg, 0)
              ELSE c1} })
    : c1 \in {IF op = "Equals" THEN res.c
              ELSE IF BinopInstrs(op) = <<>>
              THEN Panic(res.c, "That operator isn't implemented!")
              ELSE add_op_args(res.c, BinopInstrs(op)[1], l.reg, r.reg, res.reg)} })
    : res \in {get_sole_reg(r.c, r.reg)} })
    : r \in {Compile("compile_expr", l.c, <<IF op = "In" THEN lhs0 ELSE rhs0>>)} })
    : l \in {IF op # "Equals"
             THEN Compile("compile_expr", c, <<IF op = "In" THEN rhs0 ELSE lhs0>>)
             ELSE [c |-> c, reg |-> 47]} })

\* "Push the args onto the stack": the loop over args, from args[at] on.  The
\* loop of a tail call frees each register, the loop of compile_call does not.
PushArgs(c, args, at, free) ==
    IF Halted(c) \/ at > Len(args) THEN c
    ELSE The({
             PushArgs(IF r.reg # STACK
                      THEN (IF free THEN free_reg(move_(r.c, r.reg, STACK), r.reg)
                            ELSE move_(r.c, r.reg, STACK))
                      ELSE r.c,
                      args, at + 1, free)
         : r \in {Compile("compile_expr", c, <<args[at]>>)} })

\* the start of the function (name, argc) in the function table, or 0
FindFuncti(functis, n, argc) ==
    IF \E k \in 1..Len(functis) : functis[k][1] = n /\ functis[k][3] = argc
    THEN functis[CHOOSE k \in 1..Len(functis) :
                    /\ functis[k][1] = n /\ functis[k][3] = argc
                    /\ \A j \in 1..(k - 1) : ~(functis[j][1] = n /\ functis[j][3] = argc)][2]
    ELSE 0

VRefType(offset, global) == [tag |-> "RefType", v |-> <<offset, global>>]

compile_call(c, expr, args) ==
    LET n == IF expr.k = "Var" THEN SplitNth1(expr.name) ELSE <<"">>
    IN
    IF Halted(c) THEN [c |-> c, reg |-> STACK]
    ELSE IF expr.k = "Var" /\ n = <<>>
    THEN [c |-> Panic(c, "called Option::unwrap() on a None value"), reg |-> STACK]
    ELSE IF expr.k = "Var" /\ n = <<"__burlap_reftype">>
    THEN IF Len(args) = 0 \/ args[1].k # "Var" THEN [c |-> ReturnNone(c), reg |-> STACK]
         ELSE The({
                  IF ~o.some THEN [c |-> ReturnNone(c), reg |-> STACK]
                  ELSE IF o.global THEN push(c, VRefType(o.offset, o.global))
                  ELSE The({ [c |-> add_op_args(a.c, "ALO", Byte(o.offset \div 256),
                                                Byte(o.offset), a.reg),
                              reg |-> a.reg]
                           : a \in {alloc_reg(c)} })
              : o \in {get_var_offset(c, args[1].name)} })
    ELSE IF expr.k = "Var" /\ n = <<"__burlap_debug_blackbox">>
    THEN IF Len(args) = 0 THEN [c |-> Panic(c, "index out of bounds"), reg |-> STACK]
         ELSE Compile("compile_expr", c, <<args[1]>>)
    ELSE
    The({
        IF expr.k = "Var" /\ Len(args) = 0 /\ n = <<"args">>
        THEN The({ [c |-> add_op_args(a.c, "CARG", a.reg, 0, 0), reg |-> a.reg]
                 : a \in {alloc_reg(Set(c2, "needs_args", TRUE))} })
        ELSE The({
                 IF address = 0
                 THEN The({ [c |-> free_reg(add_op_args(e.c, "VCALL", e.reg,
                                                        Byte(Len(args)), 0),
                                            e.reg),
                             reg |-> STACK]
                          : e \in {Compile("compile_expr", c2, <<expr>>)} })
                 ELSE [c |-> add_op_args(c2, "CALL", Byte(address \div 65536),
                                         Byte(address \div 256), Byte(address)),
                       reg |-> STACK]
             : address \in {IF expr.k = "Var" THEN FindFuncti(c2.functis, n, Len(args))
                            ELSE 0} })
    : c2 \in {Set(PushArgs(Set(c, "on_stack_only", TRUE), args, 1, FALSE),
                  "on_stack_only", c.on_stack_only)} })

\* "Build the list": the loop over values, from values[at] on
BuildList(c, keys, values, fast, at) ==
    IF Halted(c) \/ at > Len(values) THEN c
    ELSE The({ The({
             BuildList(IF ~fast THEN push_to_stack(c1, VStr(keys[at])) ELSE c1,
                       keys, values, fast, at + 1)
         : c1 \in {IF r.reg # STACK THEN free_reg(move_(r.c, r.reg, STACK), r.reg)
                   ELSE r.c} })
         : r \in {Compile("compile_expr", c, <<values[at]>>)} })

NoFile == [some |-> FALSE, v |-> ""]

compile_expr(c, n) ==
    IF Halted(c) THEN [c |-> c, reg |-> STACK]
    ELSE
    CASE n.k = "Var" -> load_var(c, n.name)
      [] n.k = "String" -> push(c, VStr(n.val))
      [] n.k = "Number" -> push(c, VInt(n.val))
      [] n.k = "Decimal" -> push(c, VFloat(n.val))
      [] n.k = "Bool" -> push(c, VBool(n.val))
      [] n.k = "None" -> push(c, VNone)
      [] n.k = "Binop" -> Compile("compile_binop", c, <<n.lhs, n.op, n.rhs, FALSE>>)
      [] n.k = "Unary" -> compile_unary(c, n.op, n.val)
      [] n.k = "Call" -> compile_call(c, n.expr, n.args)
      [] n.k = "List" ->
            The({ [c |-> add_op_args(a.c, IF n.fast THEN "LFL" ELSE "LL", a.reg,
                                     Byte(Len(n.values) \div 256), Byte(Len(n.values))),
                   reg |-> a.reg]
                : a \in {alloc_reg(Set(BuildList(Set(c, "on_stack_only", TRUE),
                                                 n.keys, n.values, n.fast, 1),
                                       "on_stack_only", c.on_stack_only))} })
      [] n.k = "Index" ->
            The({ The({
                [c |-> free_reg(add_op_args(expr.c, "INX", expr.reg, index.reg, expr.reg),
                                index.reg),
                 reg |-> expr.reg]
            : expr \in {Compile("compile_expr", index.c, <<n.val>>)} })
            : index \in {Compile("compile_expr", c, <<n.index>>)} })
      [] n.k = "Functi" -> load_var(Compile("compile_functi", c, <<NoFile, n>>), n.name)
      [] OTHER -> [c |-> Panic(c, "Unknown token!"), reg |-> STACK]

\* ---- statements ----------------------------------------------------------------
_compile_body(c, filename, nodes) ==
    IF Halted(c) \/ nodes = <<>> THEN c
    ELSE _compile_body(Compile("compile_stmt", c, <<filename, Head(nodes), FALSE>>),
                       filename, Tail(nodes))

compile_body(c, filename, n) ==
    IF n.node.k = "Body" THEN _compile_body(c, filename, n.node.nodes)
    ELSE IF n.node = Nop THEN c
    ELSE Panic(c, "compile_body got non-body node!")

compile_functi(c, filename, functi) ==
    IF Halted(c) THEN c
    ELSE
    LET data == get_functi(functi.name)
        lclen == Len(data.locals) - data.arg_num
    IN
    The({ The({
        Set(fill_jmp(IF ~Halted(c6) /\ c6.needs_args
                     THEN [c6 EXCEPT !.ops[Len(c1.ops) + 1] =
                                         [op |-> "SARG",
                                          arg |-> Pack(Byte(data.arg_num), 0, 0)],
                                     !.needs_args = FALSE]
                     ELSE c6,
                     Len(c1.ops), 0, -1),
            "functi", c.functi)
    : c6 \in {add_op(push_to_stack(
                  compile_body(
                      add_op_args(
                          add_op(Set(c1, "functis",
                                     Append(c1.functis,
                                            <<functi.name, Len(c1.ops), data.arg_num>>)),
                                 "NOP"),
                          "PLC", Byte(lclen \div 256), Byte(lclen), Byte(data.arg_num)),
                      filename, functi.body),
                  VNone), "RET")} })
    : c1 \in {add_op(Set(c, "functi", data), "JMP")} })

\* "Fill breaks": fill_jmp for break_addrs[from + 1], break_addrs[from + 2], ...
FillBreaks(c, addrs, at) ==
    IF Halted(c) \/ at > Len(addrs) THEN c
    ELSE FillBreaks(fill_jmp(c, addrs[at], 0, -1), addrs, at + 1)

\* "Backwards jump": JMPB back to loop_top
BackwardsJump(c) ==
    LET c1 == add_op(c, "JMPB")
    IN  fill_jmp_back(c1, Len(c1.ops), UsizeSub(UsizeSub(Len(c1.ops), c1.loop_top), 1))

\* the loop of LetStmt over names.iter().zip(vals.iter())
CompileLets(c, names, vals, at) ==
    IF Halted(c) \/ at > Len(names) \/ at > Len(vals) THEN c
    ELSE The({ CompileLets(set_var(v.c, names[at], v.reg), names, vals, at + 1)
             : v \in {Compile("compile_expr", c, <<vals[at]>>)} })

\* the line table entry compile_stmt opens when the line changes
NoteLine(c, n) ==
    IF Halted(c) \/ n.line = c.old_line THEN c
    ELSE [c EXCEPT !.line_table = Append(@, <<c.line_start, Len(c.ops), c.old_line>>),
                   !.line_start = Len(c.ops),
                   !.old_line = n.line]

\* Vec::truncate
Truncate(seq, len) == IF len < Len(seq) THEN SubSeq(seq, 1, len) ELSE seq

compile_return(c, ret) ==
    LET functi == c.functis[Len(c.functis)]
        do_tco == /\ ret.expr.k = "Var"
                  /\ ret.expr.name = functi[1]
                  /\ Len(ret.args) = functi[2]
    IN  IF ret.k = "Call" /\ c.functis = <<>>
        THEN Panic(c, "called Option::unwrap() on a None value")
        ELSE IF ret.k = "Call" /\ do_tco
        THEN The({ fill_jmp_back(c2, Len(c2.ops),
                                 UsizeSub(UsizeSub(Len(c2.ops), functi[3]), 1))
                 : c2 \in {add_op(Set(PushArgs(Set(c, "on_stack_only", TRUE),
                                               ret.args, 1, TRUE),
                                      "on_stack_only", c.on_stack_only),
                                  "RCALL")} })
        ELSE The({ add_op(Set(IF r.reg # STACK
                              THEN free_reg(move_(r.c, r.reg, STACK), r.reg)
                              ELSE r.c,
                              "on_stack_only", c.on_stack_only),
                          "RET")
                 : r \in {Compile("compile_expr", Set(c, "on_stack_only", TRUE), <<ret>>)} })

compile_stmt(c0, filename, n, dirty) ==
    IF Halted(c0) THEN c0
    ELSE
    LET s == n.node
    IN
    The({
    CASE s.k = "Let" -> CompileLets(c, s.names, s.vals, 1)
      [] s.k = "If" /\ s.body.node = Nop ->
            The({ The({
                free_reg(fill_jmp(Compile("compile_stmt", c1,
                                          <<filename, s.else_part, FALSE>>),
                                  Len(c1.ops), 0, cond.reg),
                         cond.reg)
            : c1 \in {add_op(add_op_args(cond.c, "NOT", cond.reg, cond.reg, 0), "JMPNT")} })
            : cond \in {Compile("compile_expr", c, <<s.cond>>)} })
      [] s.k = "If" /\ s.body.node # Nop ->
            The({ The({ The({
                free_reg(IF s.else_part.node # Nop
                         THEN The({
                                  fill_jmp(Compile("compile_stmt",
                                                   fill_jmp(c4, Len(c1.ops), 0, cond.reg),
                                                   <<filename, s.else_part, FALSE>>),
                                           Len(c4.ops), 0, -1)
                              : c4 \in {add_op(c2, "JMP")} })
                         ELSE fill_jmp(c2, Len(c1.ops), 0, cond.reg),
                         cond.reg)
            : c2 \in {compile_body(c1, filename, s.body)} })
            : c1 \in {add_op(cond.c, "JMPNT")} })
            : cond \in {Compile("compile_expr", c, <<s.cond>>)} })
      [] s.k = "Loop" /\ s.body.node = Nop ->
            The({ fill_jmp(c1, Len(c1.ops), 1, -1)
                : c1 \in {add_op(add_op(c, "NOP"), "JMPB")} })
      [] s.k = "Loop" /\ s.body.node # Nop ->
            The({ The({
                Set(Set(c3, "break_addrs", Truncate(c3.break_addrs, Len(c.break_addrs))),
                    "loop_top", c.loop_top)
            : c3 \in {FillBreaks(c2, c2.break_addrs, Len(c.break_addrs) + 1)} })
            : c2 \in {BackwardsJump(compile_body(Set(c, "loop_top", Len(c.ops)),
                                                 filename, s.body))} })
      [] s.k = "IterLoop" ->
            The({ The({ The({ The({ The({ The({
                free_reg(IF iter.reg = STACK THEN add_op(c8, "POP") ELSE c8, item.reg)
            : c8 \in {free_reg(fill_jmp(Set(Set(c5, "break_addrs",
                                                Truncate(c5.break_addrs,
                                                         Len(item.c.break_addrs))),
                                            "loop_top", item.c.loop_top),
                                        Len(c2.ops), 0, -1),
                               iter.reg)} })
            : c5 \in {FillBreaks(c4, c4.break_addrs, Len(item.c.break_addrs) + 1)} })
            : c4 \in {BackwardsJump(compile_body(set_var(c2, s.var, item.reg),
                                                 filename, s.body))} })
            : c2 \in {add_op(add_op_args(Set(item.c, "loop_top", Len(item.c.ops)),
                                         "NXT", iter.reg, item.reg, 2),
                             "JMP")} })
            : item \in {alloc_reg(add_op_args(iter.c, "ITER", iter.reg, iter.reg, 0))} })
            : iter \in {Compile("compile_expr", c, <<s.iter>>)} })
      [] s.k = "While" ->
            The({ The({ The({
                free_reg(Set(fill_jmp(FillBreaks(c3, c3.break_addrs,
                                                 Len(c.break_addrs) + 1),
                                      Len(c1.ops), 0, cond.reg),
                             "loop_top", c.loop_top),
                         cond.reg)
            : c3 \in {BackwardsJump(compile_body(c1, filename, s.body))} })
            : c1 \in {add_op(cond.c, "JMPNT")} })
            : cond \in {Compile("compile_expr", Set(c, "loop_top", Len(c.ops)),
                                <<s.cond>>)} })
      [] s.k = "Break" ->
            The({ Set(c1, "break_addrs", Append(c1.break_addrs, Len(c1.ops)))
                : c1 \in {add_op(c, "JMP")} })
      [] s.k = "Continue" -> BackwardsJump(c)
      [] s.k = "Body" -> _compile_body(c, filename, s.nodes)
      [] s.k = "Functi" -> Compile("compile_functi", c, <<filename, s>>)
      [] s.k = "Return" -> compile_return(c, s.ret)
      [] s.k = "Import" ->
            IF ~filename.some THEN Panic(c, "called Option::unwrap() on a None value")
            ELSE Set([c EXCEPT !.file_table = Append(@, <<c.inc_start, Len(c.ops), filename.v>>)],
                     "inc_start", Len(c.ops))
      [] s.k = "EndImport" ->
            Set([c EXCEPT !.file_table = Append(@, <<c.inc_start, Len(c.ops), s.file>>)],
                "inc_start", Len(c.ops))
      [] s.k = "Nop" -> c
      [] s.k = "Binop" ->
            The({ IF dirty /\ r.reg # STACK
                  THEN free_reg(move_(r.c, r.reg, STACK), r.reg)
                  ELSE r.c
                : r \in {Compile("compile_binop", c, <<s.lhs, s.op, s.rhs, ~dirty>>)} })
      [] OTHER ->
            The({ free_reg(IF ~dirty
                           THEN (IF r.reg = STACK THEN add_op(r.c, "POP") ELSE r.c)
                           ELSE (IF r.reg # STACK THEN move_(r.c, r.reg, STACK) ELSE r.c),
                           r.reg)
                : r \in {Compile("compile_expr", c, <<s>>)} })
    : c \in {NoteLine(c0, n)} })

Compile(fn, c, args) ==
    CASE fn = "compile_expr" -> compile_expr(c, args[1])
      [] fn = "compile_binop" -> compile_binop(c, args[1], args[2], args[3], args[4])
      [] fn = "compile_functi" -> compile_functi(c, args[1], args[2])
      [] fn = "compile_stmt" -> compile_stmt(c, args[1], args[2], args[3])

\* ---- compile() -----------------------------------------------------------------
\* compile() up to its loop over the nodes
compile_begin(c, gblen) ==
    LET c1 == add_op_args(c, "PGB", Byte(gblen \div 256), Byte(gblen), 0)
    IN  Set(Set(c1, "ast_set", TRUE), "inc_start", Len(c1.ops))

\* compile() after its last compile_stmt: "End file"
compile_end(c, filename, last) ==
    LET c1 == add_op(c, "NOP")
    IN  IF Halted(c) THEN c
        ELSE IF ~filename.some THEN Panic(c1, "called Option::unwrap() on a None value")
        ELSE [c1 EXCEPT !.file_table = Append(@, <<c1.inc_start, Len(c1.ops), filename.v>>),
                        !.line_table = Append(@, <<c1.line_start, Len(c1.ops), last.line>>),
                        !.ast_set = FALSE]

\* what compile() leaves when a compile_stmt returned None: it returns false
compile_failed(c) == [c EXCEPT !.ast_set = FALSE]

\* ---- Program::get_info ----------------------------------------------------------
\* Program::bin_range: the entries binary_search_by can stop at.  The comparator
\* answers Equal for an entry (start, end, value) unless start > index or
\* end < index; when it does so for several entries the one returned depends on
\* the probing order of the library's binary search, so each of them is a
\* possible result.  No entry answering Equal: None.
bin_range(index, table) ==
    IF \E k \in 1..Len(table) : ~(table[k][1] > index) /\ ~(table[k][2] < index)
    THEN {Some(table[k][3]) : k \in {j \in 1..Len(table) :
                                        ~(table[j][1] > index) /\ ~(table[j][2] < index)}}
    ELSE {NoValue}

\* Program::get_info: the pairs (line, file) it can return
get_info(c, index) ==
    {[line |-> IF line.some THEN line.v ELSE 0,
      file |-> IF file.some THEN file.v ELSE "Unknown File"]
        : file \in bin_range(index, c.file_table), line \in bin_range(index, c.line_table)}

(***************************************************************************)
(* Part III.  The specifications                                           *)
(***************************************************************************)
\* ---- the nodes of the tree -----------------------------------------------------
VarExpr(name) == [k |-> "Var", name |-> name]
StringExpr(val) == [k |-> "String", val |-> val]
NumberExpr(val) == [k |-> "Number", val |-> val]
BoolExpr(val) == [k |-> "Bool", val |-> val]
NoneExpr == [k |-> "None"]
BinopExpr(lhs, op, rhs) == [k |-> "Binop", lhs |-> lhs, op |-> op, rhs |-> rhs]
CallExpr(expr, args) == [k |-> "Call", expr |-> expr, args |-> args]
ListExpr(keys, values, fast) == [k |-> "List", keys |-> keys, values |-> values, fast |-> fast]
IndexExpr(val, index) == [k |-> "Index", val |-> val, index |-> index]
StmtNode(line, node) == [line |-> line, node |-> node]
BodyStmt(line, nodes) == StmtNode(line, [k |-> "Body", nodes |-> nodes])
FunctiStmt(name, body) == [k |-> "Functi", name |-> name, body |-> body]
LetStmt(names, vals) == [k |-> "Let", names |-> names, vals |-> vals]
IfStmt(cond, body, else_part) == [k |-> "If", cond |-> cond, body |-> body, else_part |-> else_part]
LoopStmt(body) == [k |-> "Loop", body |-> body]
WhileStmt(cond, body) == [k |-> "While", cond |-> cond, body |-> body]
IterLoopStmt(var, iter, body) == [k |-> "IterLoop", var |-> var, iter |-> iter, body |-> body]
BreakStmt == [k |-> "Break"]
ContinueStmt == [k |-> "Continue"]
ReturnStmt(ret) == [k |-> "Return", ret |-> ret]

NoNode == StmtNode(0, Nop)

\* the state of the variables of a part of the program that is not running
CompilerIdle ==
    /\ compiler = NewCompiler
    /\ phase = "idle"
    /\ compiled = 0
    /\ stmt_in = NoNode
    /\ const_in = VNone
    /\ pre = NewCompiler
    /\ returned = -1

ValueIdle ==
    /\ overflow_checks = TRUE
    /\ v_left = VNone
    /\ v_right = VNone
    /\ v_op = "none"
    /\ v_result = Ok(VNone)
    /\ it_source = VNone
    /\ it_calls = 0

\* ---- the value model: Init draws the operands, an action applies an operator
ValueInit ==
    /\ overflow_checks \in BOOLEAN
    /\ v_left \in Values
    /\ v_right \in Values
    /\ v_op = "none"
    /\ v_result = Ok(VNone)
    /\ it_source = VNone
    /\ it_calls = 0
    /\ CompilerIdle

OpApply(op) ==
    /\ v_op = "none"
    /\ InModel(op, v_left, v_right)
    /\ v_op' = op
    /\ v_result' = Apply(op, v_left, v_right)
    /\ UNCHANGED <<overflow_checks, v_left, v_right, it_source, it_calls>>
    /\ UNCHANGED compilerVars

OpAdd == OpApply("+")
OpSub == OpApply("-")
OpMul == OpApply("*")
OpDiv == OpApply("/")
OpMod == OpApply("%")

ValueNext == OpAdd \/ OpSub \/ OpMul \/ OpDiv \/ OpMod

SpecValue == ValueInit /\ [][ValueNext]_vars

Applied == v_op # "none"

\* ---- the methods of Value: Init draws self (v_left) and the argument (v_right),
\* an action calls a method.  to_iter leaves the iterator it returned in v_left,
\* where iter_next advances it.
MaxCalls == 4

MethodCall(op, result) ==
    /\ v_op = "none"
    /\ v_op' = op
    /\ v_result' = result
    /\ UNCHANGED <<overflow_checks, v_left, v_right, it_source, it_calls>>
    /\ UNCHANGED compilerVars

CallEq ==
    /\ ~(WideInt(v_left) /\ v_right.tag = "Float")
    /\ ~(WideInt(v_right) /\ v_left.tag = "Float")
    /\ MethodCall("eq", eq(v_left, v_right))

CallIndex == MethodCall("index", value_index(v_left, v_right))

CallToInt == MethodCall("to_int", to_int(v_left))

CallToFloat == ~WideInt(v_left) /\ MethodCall("to_float", to_float(v_left))

CallToString == MethodCall("to_string", to_string(v_left))

CallToIter ==
    /\ v_op = "none"
    /\ v_op' = "to_iter"
    /\ v_result' = to_iter(v_left)
    /\ v_left' = IF to_iter(v_left).kind = "Ok" THEN to_iter(v_left).val ELSE v_left
    /\ it_source' = v_left
    /\ it_calls' = 0
    /\ UNCHANGED <<overflow_checks, v_right>>
    /\ UNCHANGED compilerVars

CallIterNext ==
    /\ v_op \in {"none", "to_iter", "iter_next"}
    /\ v_result.kind # "Abort"
    /\ it_calls < MaxCalls
    /\ v_op' = "iter_next"
    /\ v_result' = iter_next(v_left).result
    /\ v_left' = iter_next(v_left).self
    /\ it_calls' = it_calls + 1
    /\ UNCHANGED <<overflow_checks, v_right, it_source>>
    /\ UNCHANGED compilerVars

MethodNext == CallEq \/ CallIndex \/ CallToInt \/ CallToFloat \/ CallToString \/ CallToIter \/ CallIterNext

SpecMethods == ValueInit /\ [][MethodNext]_vars

\* ---- the register allocator: alloc_reg, free_reg and the stack-only switch ------
\* phase names the operation applied last.
\* The registers handed to free_reg: physical ones, the stack and a pseudo-register
FreedRegs == {0, 1, 7, 15, STACK, 17}

RegsInit ==
    /\ ValueIdle
    /\ compiler = NewCompiler
    /\ phase = "new"
    /\ compiled = 0
    /\ stmt_in = NoNode
    /\ const_in = VNone
    /\ pre = NewCompiler
    /\ returned = -1

AllocReg ==
    /\ compiler' = alloc_reg(compiler).c
    /\ returned' = alloc_reg(compiler).reg
    /\ pre' = compiler
    /\ phase' = "alloc_reg"
    /\ UNCHANGED <<compiled, stmt_in, const_in>>
    /\ UNCHANGED valueVars

FreeReg ==
    \E reg \in FreedRegs :
        /\ compiler' = free_reg(compiler, reg)
        /\ returned' = reg
        /\ pre' = compiler
        /\ phase' = "free_reg"
        /\ UNCHANGED <<compiled, stmt_in, const_in>>
        /\ UNCHANGED valueVars

\* compile_call, ListExpr and ReturnStmt set on_stack_only and put it back
SetStackOnly ==
    \E b \in BOOLEAN :
        /\ compiler' = Set(compiler, "on_stack_only", b)
        /\ returned' = -1
        /\ pre' = compiler
        /\ phase' = "on_stack_only"
        /\ UNCHANGED <<compiled, stmt_in, const_in>>
        /\ UNCHANGED valueVars

RegsNext == AllocReg \/ FreeReg \/ SetStackOnly

SpecRegs == RegsInit /\ [][RegsNext]_vars

\* ---- the constant pool: push, push_to and push_to_stack --------------------------
\* The number of entries the pool holds before the first emission: none, two short
\* of the 98 pseudo-registers, one short of what two operand bytes can index.
PoolBases == {0, 96, 65535}
\* The constants emitted
ConstValues == {VInt(1), VInt(2), VStr(<<"a">>), VNone}
\* The emissions of one behaviour
MaxEmits == 3

ConstsInit ==
    /\ ValueIdle
    /\ \E b \in PoolBases : compiler = [NewCompiler EXCEPT !.pool_base = b]
    /\ phase = "new"
    /\ compiled = 0
    /\ stmt_in = NoNode
    /\ const_in = VNone
    /\ pre = NewCompiler
    /\ returned = -1

Push ==
    \E v \in ConstValues :
        /\ compiled < MaxEmits
        /\ compiler' = push(compiler, v).c
        /\ returned' = push(compiler, v).reg
        /\ const_in' = v
        /\ pre' = compiler
        /\ phase' = "push"
        /\ compiled' = compiled + 1
        /\ UNCHANGED stmt_in
        /\ UNCHANGED valueVars

PushTo ==
    \E v \in ConstValues :
        /\ compiled < MaxEmits
        /\ compiler' = push_to(compiler, v, 0).c
        /\ returned' = push_to(compiler, v, 0).reg
        /\ const_in' = v
        /\ pre' = compiler
        /\ phase' = "push_to"
        /\ compiled' = compiled + 1
        /\ UNCHANGED stmt_in
        /\ UNCHANGED valueVars

PushToStack ==
    \E v \in ConstValues :
        /\ compiled < MaxEmits
        /\ compiler' = push_to_stack(compiler, v)
        /\ returned' = -1
        /\ const_in' = v
        /\ pre' = compiler
        /\ phase' = "push_to_stack"
        /\ compiled' = compiled + 1
        /\ UNCHANGED stmt_in
        /\ UNCHANGED valueVars

ConstsNext == Push \/ PushTo \/ PushToStack

SpecConsts == ConstsInit /\ [][ConstsNext]_vars

\* The same emissions into a pool that is two entries short of the end of an
\* operand width: of the pseudo-registers, of two bytes, of three bytes
WidthBases == {96, 65534, 16777214}

WidthInit ==
    /\ ValueIdle
    /\ \E b \in WidthBases : compiler = [NewCompiler EXCEPT !.pool_base = b]
    /\ phase = "new"
    /\ compiled = 0
    /\ stmt_in = NoNode
    /\ const_in = VNone
    /\ pre = NewCompiler
    /\ returned = -1

SpecWidth == WidthInit /\ [][ConstsNext]_vars

\* ---- compile() ---------------------------------------------------------------------
\* phase is "idle" before compile() is called, "compiling" inside its loop over the
\* nodes, and then "returned_true", "returned_false" or "panicked".
\* The number of entries the pool holds when compile() is called
CompilePoolBases == {0, 96}
\* The most top-level nodes an AST has
MaxNodes == 2

\* The nodes a top-level statement of an AST is drawn from, written on the given line
Nodes(line) ==
    LET x == VarExpr(Q("x"))
        y == VarExpr(Q("y"))
        a == VarExpr(Q("a"))
        f == Q("f")
        g == Q("g")
        h == Q("h")
        \* the function  functi name(..) { nodes }  written on one line
        Functi(name, nodes) == FunctiStmt(name, BodyStmt(line, nodes))
        Ret(ret) == StmtNode(line, ReturnStmt(ret))
    IN
        <<  NumberExpr(1),
            StringExpr(<<"a">>),
            LetStmt(<<Q("x")>>, <<NumberExpr(1)>>),
            LetStmt(<<Q("y")>>, <<NumberExpr(2)>>),
            LetStmt(<<Q("l")>>, <<ListExpr(<< <<"k">> >>, <<NumberExpr(1)>>, FALSE)>>),
            LetStmt(<<Q("l")>>, <<ListExpr(<< <<"0">> >>, <<StringExpr(<<"a">>)>>, TRUE)>>),
            BinopExpr(x, "Plus", NumberExpr(1)),
            BinopExpr(x, "And", y),
            BinopExpr(x, "Or", y),
            BinopExpr(BoolExpr(FALSE), "And", x),
            BinopExpr(BoolExpr(TRUE), "Or", x),
            LetStmt(<<Q("y")>>, <<BinopExpr(CallExpr(VarExpr(h), <<>>), "And", x)>>),
            BreakStmt,
            ContinueStmt,
            LoopStmt(BodyStmt(line, <<StmtNode(line, BreakStmt)>>)),
            WhileStmt(x, BodyStmt(line, <<StmtNode(line, ContinueStmt)>>)),
            WhileStmt(x, BodyStmt(line, <<StmtNode(line, BreakStmt)>>)),
            IterLoopStmt(Q("y"), VarExpr(Q("l")), BodyStmt(line, <<StmtNode(line, BreakStmt)>>)),
            LoopStmt(BodyStmt(line, <<StmtNode(line,
                WhileStmt(x, BodyStmt(line, <<StmtNode(line, BreakStmt)>>)))>>)),
            LoopStmt(BodyStmt(line, <<StmtNode(line, ContinueStmt)>>)),
            LoopStmt(BodyStmt(line, <<>>)),
            LoopStmt(StmtNode(line, Nop)),
            IfStmt(x, BodyStmt(line, <<StmtNode(line, NumberExpr(1))>>),
                   BodyStmt(line, <<StmtNode(line, BreakStmt)>>)),
            IfStmt(x, BodyStmt(line, <<StmtNode(line, BreakStmt)>>), StmtNode(line, Nop)),
            Functi(h, <<StmtNode(line, BreakStmt)>>),
            Functi(h, <<StmtNode(line, ContinueStmt)>>),
            Functi(h, <<Ret(CallExpr(VarExpr(h), <<>>))>>),
            Functi(f, <<Ret(CallExpr(VarExpr(f), <<a>>))>>),
            Functi(f, <<Ret(CallExpr(VarExpr(f), <<a, a>>))>>),
            Functi(f, <<Ret(CallExpr(VarExpr(g), <<a, a>>))>>),
            Functi(g, <<Ret(CallExpr(VarExpr(g), <<a, VarExpr(Q("b"))>>))>>),
            Functi(g, <<StmtNode(line, Functi(h, <<>>)),
                       Ret(CallExpr(VarExpr(g), <<a, a>>))>>),
            CallExpr(VarExpr(Q("args")), <<>>),
            Functi(h, <<StmtNode(line, CallExpr(VarExpr(Q("args")), <<>>))>>),
            Functi(g, <<StmtNode(line, CallExpr(VarExpr(Q("args")), <<>>)),
                       StmtNode(line, Functi(h, <<>>))>>),
            Functi(g, <<StmtNode(line, Functi(h, <<>>)),
                       StmtNode(line, CallExpr(VarExpr(Q("args")), <<>>))>>),
            IndexExpr(StringExpr(<<"a">>), NumberExpr(1)),
            IndexExpr(VarExpr(Q("l")), NumberExpr(1)),
            IterLoopStmt(Q("y"), StringExpr(<<"a">>), BodyStmt(line, <<>>)),
            IfStmt(BoolExpr(TRUE), StmtNode(line, Nop), StmtNode(line, Nop)),
            BinopExpr(NumberExpr(1), "Plus", x),
            ReturnStmt(CallExpr(VarExpr(f), <<x>>)),
            ReturnStmt(x)
        >>

CompileInit ==
    /\ ValueIdle
    /\ \E b \in CompilePoolBases : compiler = [NewCompiler EXCEPT !.pool_base = b]
    /\ phase = "idle"
    /\ compiled = 0
    /\ stmt_in = NoNode
    /\ const_in = VNone
    /\ pre = NewCompiler
    /\ returned = -1

TheFile == [some |-> TRUE, v |-> "main.sk"]

\* compile() of an AST with no nodes
CompileEmpty ==
    /\ phase = "idle"
    /\ phase' = "returned_true"
    /\ pre' = compiler
    /\ UNCHANGED <<compiler, compiled, stmt_in, const_in, returned>>
    /\ UNCHANGED valueVars

\* compile() of an AST with nodes, up to its loop
CompileBegin ==
    /\ phase = "idle"
    /\ phase' = "compiling"
    /\ compiler' = compile_begin(compiler, Len(all_vars))
    /\ pre' = compiler
    /\ UNCHANGED <<compiled, stmt_in, const_in, returned>>
    /\ UNCHANGED valueVars

\* where compile() stands after the compile_stmt that left the Compiler as c
PhaseAfter(c, last) ==
    IF c.halt = "none" THEN "returned_false"
    ELSE IF c.halt # "" THEN "panicked"
    ELSE IF last THEN "returned_true"
    ELSE "compiling"

\* one turn of the loop over the nodes but the last
CompileNode ==
    \E i \in 1..Len(Nodes(compiled + 1)) :
        LET n == StmtNode(compiled + 1, Nodes(compiled + 1)[i])
            c == Compile("compile_stmt", compiler, <<TheFile, n, FALSE>>)
        IN  /\ phase = "compiling"
            /\ compiled < MaxNodes - 1
            /\ compiler' = IF c.halt = "none" THEN compile_failed(c) ELSE c
            /\ phase' = PhaseAfter(c, FALSE)
            /\ compiled' = compiled + 1
            /\ stmt_in' = n
            /\ pre' = compiler
            /\ UNCHANGED <<const_in, returned>>
            /\ UNCHANGED valueVars

\* the last node, and the end of compile()
CompileLast ==
    \E i \in 1..Len(Nodes(compiled + 1)), repl \in BOOLEAN :
        LET n == StmtNode(compiled + 1, Nodes(compiled + 1)[i])
            c == compile_end(Compile("compile_stmt", compiler, <<TheFile, n, repl>>), TheFile, n)
        IN  /\ phase = "compiling"
            /\ compiler' = IF c.halt = "none" THEN compile_failed(c) ELSE c
            /\ phase' = PhaseAfter(c, TRUE)
            /\ compiled' = compiled + 1
            /\ stmt_in' = n
            /\ pre' = compiler
            /\ UNCHANGED <<const_in, returned>>
            /\ UNCHANGED valueVars

Init == CompileInit

Next == CompileEmpty \/ CompileBegin \/ CompileNode \/ CompileLast

Spec == Init /\ [][Next]_vars

\* ---- compile(), then Program::get_info on the program it returned: `returned`
\* holds the offset asked for and the line and file get_info answered
GetInfo ==
    \E index \in 0..(Len(compiler.ops) + 1) :
        \E info \in get_info(compiler, index) :
            /\ phase = "returned_true"
            /\ compiled > 0
            /\ phase' = "got_info"
            /\ returned' = [index |-> index, line |-> info.line, file |-> info.file]
            /\ UNCHANGED <<compiler, compiled, stmt_in, const_in, pre>>
            /\ UNCHANGED valueVars

InfoNext == CompileEmpty \/ CompileBegin \/ CompileNode \/ CompileLast \/ GetInfo

SpecInfo == Init /\ [][InfoNext]_vars

(***************************************************************************)
(* Part IV.  The claims                                                    *)
(***************************************************************************)

\* ---- constants ---------------------------------------------------------------
Emitted == phase \in {"push", "push_to", "push_to_stack"}

\* the pool index the last emission refers to: the pseudo-register it returned
\* when it emitted no instruction, else the operand of the load it emitted
RefIndex ==
    IF Len(compiler.ops) = Len(pre.ops) THEN returned - 17
    ELSE LET i == compiler.ops[Len(pre.ops) + 1]
         IN  IF i.op = "LD" THEN ArgA(i) * 256 + ArgB(i) ELSE i.arg

\* C1: the constant pool never holds two equal values; emitting a value the pool
\* holds leaves the pool as it is and refers to the index of the entry it holds.
C1_Deduplicated ==
    /\ \A i, j \in 1..Len(compiler.consts) :
            i # j => ~ValuePartialEq(compiler.consts[i], compiler.consts[j])
    /\ (Emitted /\ Position(pre.consts, const_in) # 0) =>
            /\ compiler.consts = pre.consts
            /\ RefIndex = pre.pool_base + Position(pre.consts, const_in) - 1
    /\ (Emitted /\ Position(pre.consts, const_in) = 0) =>
            /\ compiler.consts = Append(pre.consts, const_in)
            /\ RefIndex = pre.pool_base + Len(pre.consts)

C1_Witness ==
    /\ phase = "push_to_stack"
    /\ compiled = 3
    /\ const_in = VStr(<<"a">>)
    /\ compiler.consts = <<VInt(1), VStr(<<"a">>)>>
    /\ pre.consts = compiler.consts
    /\ RefIndex = compiler.pool_base + 1

\* ---- the code of a statement ---------------------------------------------------
\* compile() came through the last statement handed to compile_stmt
Compiled == phase \in {"compiling", "returned_true"} /\ stmt_in # NoNode

\* the instructions compile() appended for the last statement (and, after the last
\* one, its closing NOP)
StmtOps == SubSeq(compiler.ops, Len(pre.ops) + 1, Len(compiler.ops))

CountOp(ops, names) == Cardinality({j \in 1..Len(ops) : ops[j].op \in names})
HasOp(ops, names) == \E j \in 1..Len(ops) : ops[j].op \in names

\* every constant of the pool has an index below 98
C2_AllBelow98 == compiler.pool_base + Len(compiler.consts) <= 98

\* the constants a node hands to push_to_stack: the keys of its keyed list
\* literals and the value its functions return at their end
RECURSIVE C2_StackConsts(_)
RECURSIVE C2_StackConstsOf(_, _)
C2_StackConstsOf(nodes, stmts) ==
    IF nodes = <<>> THEN 0
    ELSE C2_StackConsts(IF stmts THEN Head(nodes).node ELSE Head(nodes))
         + C2_StackConstsOf(Tail(nodes), stmts)

C2_StackConsts(n) ==
    CASE n.k = "List" -> (IF n.fast THEN 0 ELSE Len(n.values)) + C2_StackConstsOf(n.values, FALSE)
      [] n.k = "Functi" -> 1 + C2_StackConsts(n.body.node)
      [] n.k = "Body" -> C2_StackConstsOf(n.nodes, TRUE)
      [] n.k = "Binop" -> C2_StackConsts(n.lhs) + C2_StackConsts(n.rhs)
      [] n.k = "Call" -> C2_StackConsts(n.expr) + C2_StackConstsOf(n.args, FALSE)
      [] n.k = "Let" -> C2_StackConstsOf(n.vals, FALSE)
      [] n.k = "Loop" -> C2_StackConsts(n.body.node)
      [] n.k = "While" -> C2_StackConsts(n.cond) + C2_StackConsts(n.body.node)
      [] n.k = "If" -> C2_StackConsts(n.cond) + C2_StackConsts(n.body.node)
                       + C2_StackConsts(n.else_part.node)
      [] n.k = "Return" -> C2_StackConsts(n.ret)
      [] OTHER -> 0

\* C2 as stated: when every constant has a pool index below 98, the program has
\* no LD and no LDL, keyed list literals and function epilogues included.
C2_NoConstantLoad ==
    (Compiled /\ C2_AllBelow98) => ~HasOp(compiler.ops, {"LD", "LDL"})

\* the pseudo-register of the constant val
C2_Pseudo(val) == compiler.pool_base + Position(compiler.consts, val) - 1 + 17

\* C2, amended: when every constant has a pool index below 98, a constant
\* emitted through push costs no instruction and is referred to by the operand
\* index + 17, in 17..114, so the program has no LD; but each constant handed to
\* push_to_stack (a key of a keyed list literal, the None a function returns at
\* its end) is loaded by one LDL that carries its index.
C2_PseudoRegisters ==
    (Compiled /\ C2_AllBelow98) =>
        /\ ~HasOp(compiler.ops, {"LD"})
        /\ CountOp(StmtOps, {"LDL"}) = C2_StackConsts(stmt_in.node)
        /\ \A j \in 1..Len(compiler.ops) :
                compiler.ops[j].op = "LDL" => compiler.ops[j].arg < 98
        /\ (stmt_in.node.k = "Let" /\ stmt_in.node.vals[1].k = "Number") =>
                /\ StmtOps[1].op = "SV_G"
                /\ ArgC(StmtOps[1]) = C2_Pseudo(VInt(stmt_in.node.vals[1].val))
                /\ ArgC(StmtOps[1]) \in 17..114
        /\ (stmt_in.node.k = "Let" /\ stmt_in.node.vals[1].k = "List") =>
                /\ StmtOps[1] = [op |-> "CP",
                                 arg |-> Pack(C2_Pseudo(IF stmt_in.node.vals[1].fast
                                                        THEN VStr(<<"a">>) ELSE VInt(1)),
                                              STACK, 0)]
                /\ ~stmt_in.node.vals[1].fast =>
                        StmtOps[2] = [op |-> "LDL", arg |-> C2_Pseudo(VStr(<<"k">>)) - 17]

C2_Witness ==
    /\ phase = "returned_true"
    /\ compiled = 2
    /\ compiler.pool_base = 96
    /\ C2_AllBelow98
    /\ stmt_in.node.k = "Let"
    /\ stmt_in.node.vals[1].k = "List"
    /\ ~stmt_in.node.vals[1].fast
    /\ StmtOps[1] = [op |-> "CP", arg |-> Pack(113, STACK, 0)]
    /\ StmtOps[2] = [op |-> "LDL", arg |-> 97]

\* ---- tail calls ----------------------------------------------------------------
\* the statement  functi name(..) { ..; return callee(args) }
C4_FunctiReturningCall ==
    /\ stmt_in.node.k = "Functi"
    /\ stmt_in.node.body.node.nodes # <<>>
    /\ LET nodes == stmt_in.node.body.node.nodes
           last == nodes[Len(nodes)].node
       IN  last.k = "Return" /\ last.ret.k = "Call"

C4_Call ==
    LET nodes == stmt_in.node.body.node.nodes
    IN  nodes[Len(nodes)].node.ret

\* the returned call names the enclosing function and has as many arguments as
\* the function has parameters
C4_SelfTailCall ==
    /\ C4_Call.expr.k = "Var"
    /\ C4_Call.expr.name = stmt_in.node.name
    /\ Len(C4_Call.args) = get_functi(stmt_in.node.name).arg_num

\* an ordinary call followed by RET
C4_CallThenRet(ops) ==
    \E j \in 1..(Len(ops) - 1) : ops[j].op \in {"CALL", "VCALL"} /\ ops[j + 1].op = "RET"

\* C4: `return f(args)` compiles to the argument pushes and an RCALL, with no
\* CALL or VCALL, whenever f is the enclosing function (also after a function
\* declared inside it) and the argument count is its arity; any other returned
\* call compiles to an ordinary call followed by RET.
C4_TailCall ==
    /\ (phase # "idle" /\ stmt_in.node.k = "Return" /\ stmt_in.node.ret.k = "Call") =>
            /\ Compiled
            /\ ~HasOp(StmtOps, {"RCALL"})
            /\ C4_CallThenRet(StmtOps)
    /\ C4_FunctiReturningCall =>
            /\ Compiled
            /\ IF C4_SelfTailCall
               THEN HasOp(StmtOps, {"RCALL"}) /\ ~HasOp(StmtOps, {"CALL", "VCALL"})
               ELSE ~HasOp(StmtOps, {"RCALL"}) /\ C4_CallThenRet(StmtOps)

\* ---- short circuits -------------------------------------------------------------
C5_ShortCircuitStmt ==
    /\ stmt_in.node.k = "Binop"
    /\ stmt_in.node.op \in {"And", "Or"}

\* C5: `a && b` and `a || b` compile, for every left operand and so for a literal
\* one, without a fatal condition, to code with a conditional jump over the
\* evaluation of b.
C5_ShortCircuit ==
    C5_ShortCircuitStmt =>
        /\ Compiled
        /\ \E j \in 1..Len(StmtOps) : StmtOps[j].op = "JMPNT" /\ StmtOps[j].arg % 65536 > 0

\* ---- break and continue ---------------------------------------------------------
\* the last statement is a break or a continue outside every loop: at top level,
\* under a top-level if, or in the body of a function
C6_OutsideLoop ==
    LET n == stmt_in.node
    IN  \/ n.k \in {"Break", "Continue"}
        \/ /\ n.k \in {"Functi", "If"}
           /\ n.body.node.nodes # <<>>
           /\ n.body.node.nodes[1].node.k \in {"Break", "Continue"}

\* C6: a break or continue outside every loop makes compile() fail: it does not
\* return success.
C6_BreakOutsideLoopFails ==
    C6_OutsideLoop => ~Compiled

\* ---- registers ---------------------------------------------------------------
\* the lowest free physical register, -1 when all 16 are in use
C3_LowestFree(regs) ==
    IF \E r \in 0..15 : regs[r + 1]
    THEN CHOOSE r \in 0..15 : regs[r + 1] /\ \A q \in 0..15 : regs[q + 1] => r <= q
    ELSE -1

C3_AllocState ==
    phase = "alloc_reg" =>
        LET low == C3_LowestFree(pre.regs)
        IN  IF pre.on_stack_only \/ low = -1
            THEN /\ returned = 16
                 /\ \A r \in 0..15 : compiler.regs[r + 1] = pre.regs[r + 1]
            ELSE /\ returned = low
                 /\ ~compiler.regs[low + 1]
                 /\ \A r \in 0..15 : r # low => compiler.regs[r + 1] = pre.regs[r + 1]

\* a physical register in use becomes free by a free_reg of it and not otherwise
C3_FreedByFreeReg ==
    \A r \in 0..15 :
        (~compiler.regs[r + 1] /\ compiler'.regs[r + 1]) =>
            (phase' = "free_reg" /\ returned' = r)

\* C3: alloc_reg always returns a register: outside stack-only mode the lowest
\* free physical register, which it marks in use and which stays in use until a
\* free_reg of it; 16 when all 16 are in use or in stack-only mode, and then the
\* availability of registers 0..15 is as it was.
C3_AllocReg == [](C3_AllocState) /\ [][C3_FreedByFreeReg]_vars

C3_Witness ==
    /\ phase = "alloc_reg"
    /\ returned = 1
    /\ ~pre.on_stack_only
    /\ ~pre.regs[1]
    /\ pre.regs[2]
    /\ ~pre.regs[3]
    /\ pre.regs[8]
    /\ ~compiler.regs[2]

\* C7: for each of + - * / %, a Boolean left operand against a non-Boolean
\* right operand gives what Integer 1 (true) or 0 (false) gives with the same
\* operator and right operand.
C7_BoolPromotes ==
    (Applied /\ v_left.tag = "Bool" /\ v_right.tag # "Bool")
        => v_result = Apply(v_op, VInt(BoolToI32(v_left.v)), v_right)

\* C8: an operation whose left operand is None returns Ok(None), whatever the
\* operator and the right operand.
C8_NonePropagates ==
    (Applied /\ v_left.tag = "None") => v_result = Ok(VNone)

C8_Witness ==
    /\ v_op = "+"
    /\ v_left = VNone
    /\ v_right = VInt(5)
    /\ v_result = Ok(VNone)

\* C9: the tag of the result of an operation on two numeric operands: a Float
\* for every division and whenever an operand is a Float, an Integer for
\* Integer with Integer under + - * %.  The operation never returns an error; it
\* yields no value only where the i32 arithmetic of two Integers panics.
C9_ExpectedTag ==
    IF v_op = "/" \/ v_left.tag = "Float" \/ v_right.tag = "Float" THEN "Float" ELSE "Int"

C9_NumericTags ==
    (Applied /\ Numeric(v_left) /\ Numeric(v_right)) =>
        /\ v_result.kind # "Err"
        /\ v_result.kind = "Ok" => v_result.val.tag = C9_ExpectedTag
        /\ v_result.kind = "Abort" => C9_ExpectedTag = "Int"

C9_Witness ==
    /\ v_op = "/"
    /\ v_left = VInt(5)
    /\ v_right = VInt(2)
    /\ v_result = Ok(VFloat(<<5, 2>>))

\* C10: with a numeric, List or Iterator left operand and a right operand that
\* is neither Integer nor Float, subtraction returns Ok(None) and addition,
\* multiplication, division and modulo return an error.
C10_Unsupported ==
    (Applied /\ ~Numeric(v_right) /\ v_left.tag \in {"Int", "Float", "List", "Iter"}) =>
        IF v_op = "-" THEN v_result = Ok(VNone) ELSE v_result.kind = "Err"

C10_Witness ==
    /\ v_op = "-"
    /\ v_left = VInt(5)
    /\ v_right = VStr(<<"a", "b">>)
    /\ v_result = Ok(VNone)

\* C11: eq(a, b) is false for values of different tags, except that an Integer
\* and a Float compare by numeric value; for two values of the same tag it is
\* natural equality (two Lists with the same entries in the same order are
\* equal, None equals None); and eq(a, b) = eq(b, a).
C11_NaturalEq(a, b) ==
    IF a.tag # b.tag
    THEN {a.tag, b.tag} = {"Int", "Float"} /\ FEq(to_float(a), to_float(b))
    ELSE IF a.tag = "Float" THEN FEq(a.v, b.v)
    ELSE a = b

C11_EqIsNaturalAndSymmetric ==
    v_op = "eq" =>
        /\ v_result = C11_NaturalEq(v_left, v_right)
        /\ v_result = eq(v_right, v_left)

\* C12: after to_iter on a List with n entries, the k-th iter_next returns the
\* k-th value of the list as it was at to_iter, in insertion order, for k <= n,
\* and the exhaustion signal (no value, no error) for every k > n; to_iter on an
\* Iterator returns it unchanged with its cursor; to_iter on any other tag and
\* iter_next on a non-Iterator return an error naming the type.
C12_Drawn(list, cursor) ==
    IF cursor + it_calls <= Len(list) THEN Some(list[cursor + it_calls]) ELSE NoValue

C12_IterYieldsListInOrder ==
    /\ v_op = "to_iter" =>
          CASE it_source.tag = "List" ->
                  /\ v_result = Ok(VIter(ValuesOf(it_source.v), 0))
                  /\ v_left = v_result.val
            [] it_source.tag = "Iter" -> v_result = Ok(it_source) /\ v_left = it_source
            [] OTHER -> /\ v_result.kind = "Err"
                        /\ v_result.msg[2] = get_type(it_source)
                        /\ v_left = it_source
    /\ v_op = "iter_next" =>
          CASE it_source.tag = "List" ->
                  v_result = Ok(C12_Drawn(ValuesOf(it_source.v), 0))
            [] it_source.tag = "Iter" /\ it_source.v[2] >= 0 ->
                  v_result = Ok(C12_Drawn(it_source.v[1], it_source.v[2]))
            [] v_left.tag # "Iter" ->
                  v_result.kind = "Err" /\ v_result.msg[2] = get_type(v_left)
            [] OTHER -> v_result.kind = "Ok"

C12_Witness ==
    /\ v_op = "iter_next"
    /\ it_source.tag = "List"
    /\ Len(it_source.v) = 3
    /\ it_calls = 4
    /\ v_result = Ok(NoValue)

\* C13: index on a List with a String key returns the value stored under that
\* key, and no result when no entry has the key (the key is never read as a
\* position); with any other key it returns the entry at position to_int(key),
\* counted from 0 in insertion order, and no result, without failing, when that
\* position is negative or not less than the number of entries.
C13_IndexByKeyOrPosition ==
    (v_op = "index" /\ v_left.tag = "List") =>
        IF v_right.tag = "Str"
        THEN IF \E k \in 1..Len(v_left.v) : v_left.v[k][1] = v_right.v
             THEN /\ v_result.some
                  /\ \E k \in 1..Len(v_left.v) :
                        v_left.v[k][1] = v_right.v /\ v_result.v = v_left.v[k][2]
             ELSE v_result = NoValue
        ELSE IF to_int(v_right) >= 0 /\ to_int(v_right) < Len(v_left.v)
             THEN v_result = Some(v_left.v[to_int(v_right) + 1][2])
             ELSE v_result = NoValue

C13_Witness ==
    /\ v_op = "index"
    /\ v_left = VList(ListEntries)
    /\ v_right = VFloat(<<5, 2>>)
    /\ v_result = Some(VFloat(<<1, 2>>))

\* C14: to_int, to_float and to_string return a result for every Value and never
\* fail: to_int an i32, to_float an f32, to_string a string, which for a List
\* (the empty list, a nested list, a list with an entry under the empty key) is
\* a rendering between brackets.
C14_ConversionsTotal ==
    /\ v_op = "to_int" => v_result \in I32Min..I32Max
    /\ v_op = "to_float" => v_result \in Int \X Int
    /\ v_op = "to_string" =>
          /\ ~v_result.abort
          /\ v_left.tag = "List" =>
                /\ Len(v_result.s) >= 2
                /\ v_result.s[1] = "["
                /\ v_result.s[Len(v_result.s)] = "]"

\* C15: each of the five arithmetic operators returns a value or an error result
\* for every pair of operands and never aborts the process, Integer % 0, the
\* Integer minimum % -1 and Integer +, -, * beyond the 32-bit range included.
C15_OperatorsNeverAbort ==
    Applied => v_result.kind \in {"Ok", "Err"}

\* C16: get_info(offset) reads each recorded range as [start, end): an offset
\* with start <= offset < end gets that range's line and file, and an offset
\* in no range (at or beyond the end of the last one, or before the first one)
\* gets the defaults, line 0 and file "Unknown File".
C16_HalfOpen(table, index, default) ==
    IF \E k \in 1..Len(table) : table[k][1] <= index /\ index < table[k][2]
    THEN table[CHOOSE k \in 1..Len(table) : table[k][1] <= index /\ index < table[k][2]][3]
    ELSE default

C16_RangesAreHalfOpen ==
    phase = "got_info" =>
        /\ returned.line = C16_HalfOpen(compiler.line_table, returned.index, 0)
        /\ returned.file = C16_HalfOpen(compiler.file_table, returned.index, "Unknown File")

\* C17: when compile returns success every register 0..15 is marked free, and so
\* it is after each statement whose compilation returned: no statement leaves a
\* register it allocated in use.
C17_RegistersFreed ==
    phase \in {"compiling", "returned_true"} =>
        \A r \in 0..(STACK - 1) : compiler.regs[r + 1]

\* C18: when the compilation of a loop statement (loop, iterator loop, while)
\* returns, loop_top has the value it had before the loop and the list of pending
\* break sites has the length it had; so a break is patched once, to the exit of
\* its innermost loop: its jump lands on an instruction of the statement or on
\* the one that follows it.
C18_LoopContextRestored ==
    (Compiled /\ stmt_in.node.k \in {"Loop", "IterLoop", "While"}) =>
        /\ compiler.loop_top = pre.loop_top
        /\ Len(compiler.break_addrs) = Len(pre.break_addrs)
        /\ \A j \in (Len(pre.ops) + 1)..Len(compiler.ops) :
              compiler.ops[j].op = "JMP" =>
                  (j - 1) + compiler.ops[j].arg <= Len(compiler.ops)

\* C19: the offset a forward jump (JMP, JMPNT) holds once it is filled.  The
\* position of an instruction is its index in the stream, from 0; the target of
\* a jump is the first instruction emitted after the code it skips:
\*   - the jump around a function: the instruction after the function's last RET;
\*   - the JMPNT of an if without else, of a while loop and of && and ||, the exit
\*     JMP of an iterator loop, a break: the instruction after the if, the loop,
\*     the operand;
\*   - the JMPNT of an if with an else: the instruction after the exit JMP that
\*     closes the true part; that exit JMP: the instruction after the else part.
\* C19_ForwardOffsets(d): every fill gave the jump the offset
\* target - position - d.  The break of a while loop inside a loop is filled by
\* both loops (C18) and holds the sum of the two.
C19_Off(i) == IF i.op = "JMPNT" THEN i.arg % 65536 ELSE i.arg

\* the filled forward jumps of the statement compiled last (indices into ops, from 1)
C19_Jumps ==
    {j \in (Len(pre.ops) + 1)..Len(compiler.ops) :
        compiler.ops[j].op \in {"JMP", "JMPNT"} /\ C19_Off(compiler.ops[j]) # 0}

\* the statement holds another compound statement
C19_Nested(n) ==
    /\ n.k \in {"Loop", "Functi"}
    /\ n.body.node.k = "Body"
    /\ \E i \in 1..Len(n.body.node.nodes) :
          n.body.node.nodes[i].node.k \in {"While", "Functi"}

\* the position of the instruction after the first one named op that follows j
C19_After(j, op) ==
    CHOOSE t \in j..Len(compiler.ops) :
        /\ compiler.ops[t].op = op
        /\ \A u \in (j + 1)..(t - 1) : compiler.ops[u].op # op

C19_ForwardOffsets(d) ==
    (phase = "compiling" /\ stmt_in # NoNode) =>
        \A j \in C19_Jumps :
            LET off == C19_Off(compiler.ops[j])
                pos == j - 1
                end == Len(compiler.ops)
                n == stmt_in.node
            IN  CASE n.k = "Let" -> off = ((end - 1) - pos) - d
                  [] n.k = "If" /\ n.else_part.node # Nop ->
                        IF compiler.ops[j].op = "JMPNT"
                        THEN off = (C19_After(j, "JMP") - pos) - d
                        ELSE off = (end - pos) - d
                  [] n.k = "Loop" /\ C19_Nested(n) ->
                        IF compiler.ops[j].op = "JMPNT"
                        THEN off = ((end - 1) - pos) - d
                        ELSE off = (((end - 1) - pos) - d) + ((end - pos) - d)
                  [] n.k = "Functi" /\ C19_Nested(n) ->
                        IF j = Len(pre.ops) + 1
                        THEN off = (end - pos) - d
                        ELSE off = (C19_After(j, "RET") - pos) - d
                  [] OTHER -> off = (end - pos) - d

\* C19 as amended: the offset is target - position
C19_OffsetIsDistance == C19_ForwardOffsets(0)

\* C19 as stated: the offset is target - position - 1
C19_OffsetIsDistanceLessOne == C19_ForwardOffsets(1)

C19_Witness ==
    /\ phase = "compiling"
    /\ stmt_in.node.k = "If"
    /\ stmt_in.node.else_part.node # Nop
    /\ Len(pre.ops) = 1
    /\ compiler.ops[3].op = "JMPNT" /\ compiler.ops[3].arg % 65536 = 2
    /\ compiler.ops[4].op = "JMP" /\ compiler.ops[4].arg = 2

\* C20: every backward jump of a loop statement, its back-edge and each continue
\* in its body, holds the distance from the jump to the top the loop recorded
\* (the loop's first instruction; the NXT of an iterator loop), also when that
\* distance is 0: the jump lands on the top and not before it.
C20_Top ==
    IF stmt_in.node.k = "IterLoop"
    THEN (CHOOSE t \in (Len(pre.ops) + 1)..Len(compiler.ops) :
              /\ compiler.ops[t].op = "NXT"
              /\ \A u \in (Len(pre.ops) + 1)..(t - 1) : compiler.ops[u].op # "NXT") - 1
    ELSE Len(pre.ops)

C20_BackwardJumpsReachTop ==
    (phase = "compiling" /\ stmt_in.node.k \in {"Loop", "IterLoop", "While"}) =>
        \A j \in (Len(pre.ops) + 1)..Len(compiler.ops) :
            compiler.ops[j].op = "JMPB" => (j - 1) - compiler.ops[j].arg = C20_Top

\* C21: the RCALL of a self tail call holds the distance from the RCALL to the
\* start the function table records for the enclosing function, its first real
\* instruction, whatever the function's arity.
C21_TailCallReachesStart ==
    (Compiled /\ stmt_in.node.k = "Functi" /\ Len(compiler.functis) > Len(pre.functis)) =>
        \A j \in (Len(pre.ops) + 1)..Len(compiler.ops) :
            compiler.ops[j].op = "RCALL" =>
                (j - 1) - compiler.ops[j].arg = compiler.functis[Len(pre.functis) + 1][2]

\* C22: the first instruction of a function, at the start its function-table
\* entry records, is SARG when the function's own body refers to args() and NOP
\* when it does not, wherever the function is declared: after top-level code that
\* used args(), or around a function declared inside it.
C22_UsesArgs(functi) ==
    \E i \in 1..Len(functi.body.node.nodes) :
        functi.body.node.nodes[i].node = CallExpr(VarExpr(Q("args")), <<>>)

C22_First(functi, entry) ==
    /\ entry[1] = functi.name
    /\ compiler.ops[entry[2] + 1].op = IF C22_UsesArgs(functi) THEN "SARG" ELSE "NOP"

C22_ArgsSavedByOwner ==
    (Compiled /\ stmt_in.node.k = "Functi") =>
        /\ Len(compiler.functis) > Len(pre.functis)
        /\ C22_First(stmt_in.node, compiler.functis[Len(pre.functis) + 1])
        /\ \A i \in 1..Len(stmt_in.node.body.node.nodes) :
              stmt_in.node.body.node.nodes[i].node.k = "Functi" =>
                  /\ Len(compiler.functis) > Len(pre.functis) + 1
                  /\ C22_First(stmt_in.node.body.node.nodes[i].node,
                               compiler.functis[Len(pre.functis) + 2])

\* C23: no emitted instruction writes through a pseudo-register (17..114) of a
\* constant: the operand an instruction writes, the result of NOT, ITER, INX and
\* of the arithmetic and comparison instructions and the target of CP, is a
\* physical register or the stack slot, also when a literal is indexed, iterated
\* over, or is the condition of an if with an empty true branch.
C23_Dest(i) ==
    CASE i.op \in {"NOT", "ITER", "CP"} -> ArgB(i)
      [] i.op \in {"INX", "ADD", "SUB", "MUL", "DIV", "MOD", "XOR", "GT", "LT", "EQ", "IN"} ->
            ArgC(i)
      [] OTHER -> STACK

C23_NoWriteToPseudoRegister ==
    \A j \in 1..Len(compiler.ops) : C23_Dest(compiler.ops[j]) \notin 17..114

\* ---- C24 ------------------------------------------------------------------------
\* the pool index of the value push/push_to was handed
C24_Index ==
    IF Position(pre.consts, const_in) # 0
    THEN pre.pool_base + Position(pre.consts, const_in) - 1
    ELSE pre.pool_base + Len(pre.consts)

C24_PushedTo == phase \in {"push", "push_to"} /\ ~Halted(pre)
C24_New == SubSeq(compiler.ops, Len(pre.ops) + 1, Len(compiler.ops))
C24_Aborts ==
    /\ compiler.halt = "Too many different constants! You have over 16777215 constants!!"
    /\ compiler.ops = pre.ops
\* an LDL with the index big-endian across its three operand bytes
C24_IsLDL(i) ==
    /\ i.op = "LDL"
    /\ ArgA(i) = (C24_Index \div 65536) % 256
    /\ ArgB(i) = (C24_Index \div 256) % 256
    /\ ArgC(i) = C24_Index % 256
\* the register push_to loads into when the index takes two bytes
C24_Target ==
    IF phase = "push_to" THEN 0
    ELSE IF pre.on_stack_only \/ FirstFree(pre.regs) = -1 THEN STACK
    ELSE FirstFree(pre.regs)

MaxCompiles == 2

\* The nodes of an AST handed to such a call, written on the given line; the
\* function's body is on the next line
ReplNodes(line) ==
    <<  NumberExpr(1),
        LetStmt(<<Q("x")>>, <<NumberExpr(1)>>),
        [k |-> "Import"],
        [k |-> "EndImport", file |-> "lib.sk"],
        FunctiStmt(Q("h"), BodyStmt(line + 1, <<StmtNode(line + 1, NumberExpr(1))>>))
    >>

\* the calls of compile() that went past an empty AST
Compiles == CountOp(compiler.ops, {"PGB"})

\* compile() of an AST with nodes, up to its loop, on a new Compiler or on one
\* an earlier compile() returned true from
ReplBegin ==
    /\ phase \in {"idle", "returned_true"}
    /\ Compiles < MaxCompiles
    /\ phase' = "compiling"
    /\ compiler' = compile_begin(compiler, Len(all_vars))
    /\ compiled' = 0
    /\ pre' = compiler
    /\ UNCHANGED <<stmt_in, const_in, returned>>
    /\ UNCHANGED valueVars

ReplNode ==
    \E i \in 1..Len(ReplNodes(compiled + 1)) :
        LET n == StmtNode(compiled + 1, ReplNodes(compiled + 1)[i])
            c == Compile("compile_stmt", compiler, <<TheFile, n, FALSE>>)
        IN  /\ phase = "compiling"
            /\ compiled < MaxNodes - 1
            /\ compiler' = IF c.halt = "none" THEN compile_failed(c) ELSE c
            /\ phase' = PhaseAfter(c, FALSE)
            /\ compiled' = compiled + 1
            /\ stmt_in' = n
            /\ pre' = compiler
            /\ UNCHANGED <<const_in, returned>>
            /\ UNCHANGED valueVars

ReplLast ==
    \E i \in 1..Len(ReplNodes(compiled + 1)), repl \in BOOLEAN :
        LET n == StmtNode(compiled + 1, ReplNodes(compiled + 1)[i])
            c == compile_end(Compile("compile_stmt", compiler, <<TheFile, n, repl>>), TheFile, n)
        IN  /\ phase = "compiling"
            /\ compiler' = IF c.halt = "none" THEN compile_failed(c) ELSE c
            /\ phase' = PhaseAfter(c, TRUE)
            /\ compiled' = compiled + 1
            /\ stmt_in' = n
            /\ pre' = compiler
            /\ UNCHANGED <<const_in, returned>>
            /\ UNCHANGED valueVars

ReplNext == ReplBegin \/ ReplNode \/ ReplLast

SpecRepl == Init /\ [][ReplNext]_vars

\* ---- C25 ------------------------------------------------------------------------
\* the ranges (start, end, value) of a table are sorted and contiguous
C25_Contiguous(table) ==
    /\ \A i \in 1..Len(table) : table[i][1] <= table[i][2]
    /\ \A i \in 2..Len(table) : table[i][1] = table[i - 1][2]
    /\ \A i, j \in 1..Len(table) :
            i # j => ~\E o \in 0..Len(compiler.ops) :
                        /\ table[i][1] <= o /\ o < table[i][2]
                        /\ table[j][1] <= o /\ o < table[j][2]

\* C25: at every point of a compilation, and of a later one on the same
\* Compiler, the line table and the file table each hold ranges with
\* start <= end, each starting where the one before it ends, no two of them
\* sharing an instruction offset.
C25_TablesContiguous ==
    /\ C25_Contiguous(compiler.line_table)
    /\ C25_Contiguous(compiler.file_table)

====
